---- MODULE Spec2Model ----
(***************************************************************************)
(* A model of the optimization back end of opti-invest:                    *)
(*   - FinnhubClient._enforce_rate_limit (backend/app/external/finnhub.py) *)
(*   - OptimizationService.optimize_portfolio and _fetch_historical_data   *)
(*     (backend/app/services/optimization_service.py)                      *)
(*                                                                         *)
(* Concurrency is asyncio's: one task runs at a time and gives up the      *)
(* event loop only at an await that suspends.  Time is a wall clock in     *)
(* whole seconds that only moves forward.                                  *)
(***************************************************************************)
EXTENDS Integers, Sequences, FiniteSets, TLC

VARIABLES
    now,            \* the wall clock, in seconds (time.time / datetime.now)
    nticks,         \* how many times the clock has advanced
    calls_made,     \* FinnhubClient.calls_made: timestamps of the recorded calls
    gw,             \* per gateway task: its position in _enforce_rate_limit
    last_waited,    \* whether the call recorded last had waited out the window
    last_batch,     \* what the last batch call of a provider client did
    holdings,       \* SessionStore._holdings, in insertion order
    api_key,        \* whether MarketstackClient.api_key is configured
    cache,          \* OptimizationService.cache: the historical datasets
    _optimization_cache,    \* request key -> memoized OptimizationResult
    _cache_timestamp,       \* request key -> time the result was stored at
    _active_optimizations,  \* the keys marked in flight
    tk,             \* per task: the optimize_portfolio call it runs, if any
    nreq,           \* how many requests have arrived
    last_done,      \* the optimize_portfolio call that ended last
    last_fetch,     \* what the last _fetch_historical_data call did
    earlier_fetch,  \* an earlier _fetch_historical_data call that stored a dataset
    last_calc       \* what the last call of a computing helper was given and returned

gatewayVars == <<calls_made, gw, last_waited, last_batch>>

orchVars == <<holdings, _optimization_cache, _cache_timestamp,
              _active_optimizations, tk, nreq, last_done>>

histVars == <<api_key, cache, last_fetch, earlier_fetch>>

calcVars == <<last_calc>>

vars == <<now, nticks, gatewayVars, orchVars, histVars, calcVars>>

----------------------------------------------------------------------------
(* Bounds of the model *)

\* How many times the clock advances in a behaviour.
MaxTicks == 2

\* How many tasks share the FinnhubClient instance.
NumGatewayTasks == 2

GatewayTasks == 1..NumGatewayTasks

----------------------------------------------------------------------------
(* The clock *)

\* The gateway's clock moves in steps of two seconds or of one second less
\* than the rate window, so that an instant just inside the window of an
\* earlier call, and the instant a delayed caller wakes at, are both reached.
GatewaySteps == {2, 59}

Tick(d) ==
    /\ nticks < MaxTicks
    /\ now' = now + d
    /\ nticks' = nticks + 1

----------------------------------------------------------------------------
(* FinnhubClient: the sliding-window limiter *)

max_calls_per_minute == 60

rate_limit_window == 60

\* [call_time for call_time in calls if current_time - call_time < window]
RECURSIVE Purge(_, _)
Purge(calls, current_time) ==
    IF calls = <<>> THEN <<>>
    ELSE IF current_time - Head(calls) < rate_limit_window
         THEN <<Head(calls)>> \o Purge(Tail(calls), current_time)
         ELSE Purge(Tail(calls), current_time)

\* min(self.calls_made), of a non-empty list
RECURSIVE MinOf(_)
MinOf(calls) ==
    IF Len(calls) = 1 THEN calls[1]
    ELSE LET m == MinOf(Tail(calls))
         IN  IF calls[1] <= m THEN calls[1] ELSE m

\* A variant that lets one call more through before it holds callers back.
AtLimit_NoLimit(calls) == Len(calls) > max_calls_per_minute

\* len(self.calls_made) >= self.max_calls_per_minute
AtLimit(calls) == Len(calls) >= max_calls_per_minute

\* rate_limit_window - (current_time - oldest_call) + 1
WaitTime(calls, current_time) ==
    rate_limit_window - (current_time - MinOf(calls)) + 1

\* The clean-up after the wait: the list filtered again at the new time.
PurgeAfterWait(calls, current_time) == Purge(calls, current_time)

\* _enforce_rate_limit up to its first suspension: the record is purged;
\* below the limit (or with nothing to wait for) the call is recorded at
\* once, at the limit the task goes to sleep for wait_time seconds.
EnforceRateLimit(t) ==
    /\ gw[t].pc = "idle"
    /\ LET current_time == now
           purged == Purge(calls_made, current_time)
       IN  IF AtLimit(purged) /\ WaitTime(purged, current_time) > 0
           THEN /\ calls_made' = purged
                /\ gw' = [gw EXCEPT ![t] =
                            [pc |-> "sleeping",
                             wake_at |-> current_time + WaitTime(purged, current_time)]]
                /\ UNCHANGED last_waited
           ELSE /\ calls_made' = Append(purged, current_time)
                /\ last_waited' = FALSE
                /\ UNCHANGED gw
    /\ UNCHANGED <<now, nticks, last_batch, orchVars, histVars, calcVars>>

\* asyncio.sleep(wait_time) returns, no earlier than asked: the time is read
\* again, the record purged again, and the call recorded without a second
\* look at the limit.
WakeAndRecord(t) ==
    /\ gw[t].pc = "sleeping"
    /\ now >= gw[t].wake_at
    /\ LET current_time == now
       IN  calls_made' = Append(PurgeAfterWait(calls_made, current_time), current_time)
    /\ gw' = [gw EXCEPT ![t] = [pc |-> "idle", wake_at |-> 0]]
    /\ last_waited' = TRUE
    /\ UNCHANGED <<now, nticks, last_batch, orchVars, histVars, calcVars>>

GatewayTick ==
    /\ \E d \in GatewaySteps : Tick(d)
    /\ UNCHANGED <<gatewayVars, orchVars, histVars, calcVars>>

\* The clock moving by one second or by the length of the rate window, so
\* that the instant the oldest call leaves the window, one second before a
\* delayed caller wakes, is reached.
GatewayOrderSteps == {1, rate_limit_window}

GatewayOrderTick ==
    /\ \E d \in GatewayOrderSteps : Tick(d)
    /\ UNCHANGED <<gatewayVars, orchVars, histVars, calcVars>>

\* None, for a quote
NoQuote == [symbol |-> "", price |-> 0]

\* get_quote, after _enforce_rate_limit: the provider answers with a price,
\* with an error message or a body without a price, or the request fails
\* with an exception; only a price makes a quote, and nothing is raised.
GetQuote_Raises(symbol, answer) ==
    [raised |-> answer = "exception",
     quote |-> IF answer = "price" THEN [symbol |-> symbol, price |-> 1] ELSE NoQuote]

GetQuote(symbol, answer) ==
    [raised |-> FALSE,
     quote |-> IF answer = "price" THEN [symbol |-> symbol, price |-> 1] ELSE NoQuote]

\* The loop of get_batch_quotes by one task, from the account acc of the
\* quotes so far, the calls recorded and the time: for each symbol
\* _enforce_rate_limit (with its wait, if any), then the request.
RECURSIVE BatchQuotes(_, _, _)
BatchQuotes(symbols, answers, acc) ==
    IF symbols = <<>> \/ acc.raised THEN acc
    ELSE LET purged == Purge(acc.calls, acc.time)
             waits == AtLimit(purged) /\ WaitTime(purged, acc.time) > 0
             current_time == IF waits THEN acc.time + WaitTime(purged, acc.time)
                             ELSE acc.time
             calls == IF waits
                      THEN Append(PurgeAfterWait(purged, current_time), current_time)
                      ELSE Append(purged, current_time)
             got == GetQuote(Head(symbols), Head(answers))
         IN  BatchQuotes(Tail(symbols), Tail(answers),
                [raised |-> got.raised,
                 quotes |-> IF got.raised THEN acc.quotes
                            ELSE (Head(symbols) :> got.quote) @@ acc.quotes,
                 calls |-> calls, time |-> current_time])

\* How many calls the client has recorded, at most, when a batch starts.
MaxBatchCalls == 4

\* get_batch_quotes(symbols), with what the provider answers to each request.
GetBatchQuotes(symbols, answers) ==
    /\ Len(calls_made) < MaxBatchCalls
    /\ \E r \in {BatchQuotes(symbols, answers,
                              [raised |-> FALSE, quotes |-> <<>>,
                               calls |-> calls_made, time |-> now])} :
            /\ calls_made' = r.calls
            /\ now' = r.time
            /\ last_batch' = [op |-> "quotes", symbols |-> symbols,
                              answers |-> answers, raised |-> r.raised,
                              result |-> r.quotes]
    /\ UNCHANGED <<nticks, gw, last_waited, orchVars, histVars, calcVars>>

----------------------------------------------------------------------------
(* MarketstackClient and the historical series cache *)

\* The ticker symbols of the model, in Python's string order.
SymbolsSorted == <<"AAPL", "GOOGL", "MSFT">>

Symbols == {SymbolsSorted[i] : i \in DOMAIN SymbolsSorted}

cache_timeout == 3600

min_data_points == 60

\* What the provider has for a symbol: the number of non-null closes of the
\* series it returns, 0 when the request fails or returns no data.
ObsChoices == {0, 59, 60}

\* The provider's answers: a full series for every symbol, or for every
\* symbol but one, or no data at all.
Responses ==
    {[s \in Symbols |-> IF s = short THEN n ELSE min_data_points] :
        short \in Symbols, n \in ObsChoices}
    \cup {[s \in Symbols |-> 0]}

\* How the clock moves between historical fetches.
HistSteps == {1, 3599, 86400}

\* sorted(symbols): the occurrences of the first symbol in string order, then
\* those of the second, and so on.
RECURSIVE SortFrom(_, _)
SortFrom(i, symbols) ==
    IF i > Len(SymbolsSorted) THEN <<>>
    ELSE SelectSeq(symbols, LAMBDA s : s = SymbolsSorted[i]) \o SortFrom(i + 1, symbols)

\* The symbols joined in the order they came in.
SortSymbols_Unsorted(symbols) == symbols

SortSymbols(symbols) == SortFrom(1, symbols)

\* sep.join(strings)
RECURSIVE Join(_, _)
Join(strings, sep) ==
    IF strings = <<>> THEN ""
    ELSE IF Len(strings) = 1 THEN strings[1]
         ELSE strings[1] \o sep \o Join(Tail(strings), sep)

\* f"{'-'.join(sorted(symbols))}_{lookback_days}"
HistCacheKey(symbols, lookback_days) ==
    Join(SortSymbols(symbols), "-") \o "_" \o ToString(lookback_days)

\* timedelta.seconds of a non-negative difference of d whole seconds: the
\* seconds left over once the whole days are taken out.
TimedeltaSeconds(d) == d % 86400

\* The timeout taken for a number of minutes.
HistEntryValid_Minutes(cached_time, current) ==
    TimedeltaSeconds(current - cached_time) * 60 < cache_timeout

\* (datetime.now() - cached_time).seconds < self.cache_timeout
HistEntryValid(cached_time, current) ==
    TimedeltaSeconds(current - cached_time) < cache_timeout

\* The dict all_data of get_historical_data: one column for each symbol that
\* yielded data, in the order the symbols were first asked for.
RECURSIVE AllData(_, _, _)
AllData(symbols, resp, seen) ==
    IF symbols = <<>> THEN <<>>
    ELSE LET s == Head(symbols)
         IN  IF resp[s] > 0 /\ s \notin seen
             THEN <<[symbol |-> s, obs |-> resp[s]]>>
                      \o AllData(Tail(symbols), resp, seen \cup {s})
             ELSE AllData(Tail(symbols), resp, seen)

\* MarketstackClient.get_historical_data: raises without an api key and when
\* no symbol yielded data; otherwise the combined frame.  calls counts the
\* requests sent to the provider, one for each symbol asked for.
GetHistoricalData(symbols, resp) ==
    IF ~api_key
    THEN [raised |-> TRUE, data |-> <<>>, calls |-> 0]
    ELSE LET all_data == AllData(symbols, resp, {})
         IN  [raised |-> all_data = <<>>, data |-> all_data, calls |-> Len(symbols)]

\* Every column kept, however short.
ValidColumns_Unfiltered(data) == data

\* The columns with at least min_data_points non-null observations.
ValidColumns(data) == SelectSeq(data, LAMBDA c : c.obs >= min_data_points)

\* (A variant below makes its check on a cache as it was before any other
\* task stored: it finds no entry and fetches.)
\* OptimizationService._fetch_historical_data, as a function of the cache it
\* finds (self.cache) and of what the provider answers: the outcome, the
\* dataset returned, the cache it leaves, the provider calls issued, the
\* age of the entry found under the key (-1 when there is none) and the
\* length of valid_symbols (-1 when the call did not get to compute it) and
\* whether get_historical_data raised.  cache_key and got, the provider's answer, are each named once, as the element of a
\* one-element set.
FetchHistoricalData_StaleCheck(self_cache, symbols, lookback_days, resp) ==
    LET cache_key == HistCacheKey(symbols, lookback_days)
        got == GetHistoricalData(symbols, resp)
        valid == ValidColumns(got.data)
    IN  IF got.raised \/ valid = <<>> \/ Len(valid) < 3
        THEN [out |-> "failed", data |-> <<>>, cache |-> self_cache,
              calls |-> got.calls, age |-> -1, key |-> cache_key,
              valid |-> Len(valid), raised |-> got.raised]
        ELSE [out |-> "fetched", data |-> valid,
              cache |-> (cache_key :> [data |-> valid, time |-> now]) @@ self_cache,
              calls |-> got.calls, age |-> -1, key |-> cache_key,
              valid |-> Len(valid), raised |-> FALSE]

FetchHistoricalData(self_cache, symbols, lookback_days, resp) ==
    CHOOSE r \in
        {LET found == cache_key \in DOMAIN self_cache
             age == IF found THEN now - self_cache[cache_key].time ELSE -1
         IN  IF found /\ HistEntryValid(self_cache[cache_key].time, now)
             THEN [out |-> "hit", data |-> self_cache[cache_key].data,
                   cache |-> self_cache, calls |-> 0, age |-> age, key |-> cache_key,
                   valid |-> -1, raised |-> FALSE]
             ELSE CHOOSE fetched \in
                    {LET valid == ValidColumns(got.data)
                     IN  IF got.raised \/ valid = <<>> \/ Len(valid) < 3
                         THEN [out |-> "failed", data |-> <<>>, cache |-> self_cache,
                               calls |-> got.calls, age |-> age, key |-> cache_key,
                               valid |-> Len(valid), raised |-> got.raised]
                         ELSE [out |-> "fetched", data |-> valid,
                               cache |-> (cache_key :> [data |-> valid, time |-> now])
                                            @@ self_cache,
                               calls |-> got.calls, age |-> age, key |-> cache_key,
                               valid |-> Len(valid), raised |-> FALSE] :
                        got \in {GetHistoricalData(symbols, resp)}} : TRUE :
            cache_key \in {HistCacheKey(symbols, lookback_days)}} : TRUE

\* What a call did, for the record: its arguments, the time it was made at,
\* its outcome, the dataset it returned and the provider calls it issued.
FetchRecord(r, symbols, lookback_days) ==
    [out |-> r.out, key |-> r.key, calls |-> r.calls, age |-> r.age,
     symbols |-> symbols, lookback_days |-> lookback_days, at |-> now,
     data |-> r.data, valid |-> r.valid]

NoFetch ==
    [out |-> "none", key |-> "", calls |-> 0, age |-> -1,
     symbols |-> <<>>, lookback_days |-> 0, at |-> 0, data |-> <<>>,
     valid |-> -1]

\* The symbol lists and lookbacks _fetch_historical_data is called with.
HistSymbolLists ==
    {<<"AAPL", "MSFT", "GOOGL">>, <<"GOOGL", "AAPL", "MSFT">>, <<"AAPL", "MSFT">>}

HistLookbacks == {60, 252}

\* One call of _fetch_historical_data; it holds no await that suspends, so
\* it runs from its cache check to its store in one step.  A call that
\* fetched and stored a dataset may be kept in earlier_fetch, to compare the
\* later calls with.
FetchHistorical(symbols, lookback_days, resp) ==
    /\ \E r \in {FetchHistoricalData(cache, symbols, lookback_days, resp)} :
           /\ cache' = r.cache
           /\ last_fetch' = FetchRecord(r, symbols, lookback_days)
           /\ \/ earlier_fetch' = earlier_fetch
              \/ /\ r.out = "fetched"
                 /\ earlier_fetch' = FetchRecord(r, symbols, lookback_days)
    /\ UNCHANGED <<now, nticks, api_key, calcVars, gatewayVars, orchVars>>

\* MarketstackClient.get_historical_data(symbols, ...), with what the
\* provider has for each symbol.
GetHistorical(symbols, resp) ==
    /\ \E got \in {GetHistoricalData(symbols, resp)} :
            last_batch' = [op |-> "historical", symbols |-> symbols,
                           answers |-> resp, raised |-> got.raised,
                           result |-> got.data]
    /\ UNCHANGED <<now, nticks, calls_made, gw, last_waited, orchVars, histVars, calcVars>>

HistTick ==
    /\ \E d \in HistSteps : Tick(d)
    /\ UNCHANGED <<gatewayVars, orchVars, histVars, calcVars>>

----------------------------------------------------------------------------
(* The computing helpers of OptimizationService *)

\* No helper has been called.
NoCalc == [op |-> "none", args |-> <<>>, result |-> <<>>]

\* sum(...) of a sequence of numbers
RECURSIVE SumSeq(_)
SumSeq(xs) == IF xs = <<>> THEN 0 ELSE Head(xs) + SumSeq(Tail(xs))

\* abs(x)
Abs(x) == IF x < 0 THEN -x ELSE x

\* How many assets a solve is given, at most.
MaxAssets == 4

\* The weights the helpers below work on are in thousandths, ratios of them
\* are fractions [num, den] with den > 0.

\* What the solver can put out for n assets under risk_config: weights
\* within the bounds that sum to 1.
SolverOutputs(n, risk_config) ==
    {w \in [1..n -> {0, 4, 100, 196, 200, 300, 396, 400, 500}] :
        /\ SumSeq(w) = 1000
        /\ \A i \in 1..n : /\ w[i] >= risk_config.min_weight
                            /\ w[i] <= risk_config.max_weight}

\* cutoff=0.005
cutoff == 5

\* ef.clean_weights(cutoff=0.005): each weight below the cutoff in absolute
\* value becomes 0; the rounding to 5 decimals leaves thousandths as they are.
CleanWeights(weights) ==
    [i \in DOMAIN weights |-> IF Abs(weights[i]) < cutoff THEN 0 ELSE weights[i]]

\* Lines 272-274: each weight divided by the total, when the total is
\* positive.
NormalizeWeights(weights) ==
    LET total_weight == SumSeq(weights)
    IN  [i \in DOMAIN weights |->
            IF total_weight > 0
            THEN [num |-> weights[i], den |-> total_weight]
            ELSE [num |-> weights[i], den |-> 1000]]

\* _optimize_weights from the solver's output on: lines 268-276.
OptimizeWeightsPost(risk_config, solved) ==
    /\ last_calc = NoCalc
    /\ last_calc' = [op |-> "optimize_weights",
                     args |-> [risk_config |-> risk_config, solved |-> solved],
                     result |-> NormalizeWeights(CleanWeights(solved))]
    /\ UNCHANGED <<now, nticks, gatewayVars, orchVars, histVars>>

\* The weight maps the helpers are given: a weight, in thousandths, for
\* each symbol of some set of symbols.
WeightMaps ==
    UNION {[symbols -> {300, 310, 321}] : symbols \in SUBSET Symbols}

\* weights.get(symbol, 0)
WeightOf(weights, symbol) ==
    IF symbol \in DOMAIN weights THEN weights[symbol] ELSE 0

\* A variant that lists every symbol, whatever the size of its trade.
CalculateRebalancingTrades_KeepAll(current_weights, optimal_weights, total_value) ==
    [symbol \in DOMAIN current_weights \cup DOMAIN optimal_weights |->
        (WeightOf(optimal_weights, symbol) - WeightOf(current_weights, symbol))
            * total_value]

\* _calculate_rebalancing_trades, with total_value for the sum of the
\* holdings' values: the amounts are in thousandths of the currency unit,
\* and 0.01 is 10 thousandths.
CalculateRebalancingTrades(current_weights, optimal_weights, total_value) ==
    LET dollar_amount(symbol) ==
            (WeightOf(optimal_weights, symbol) - WeightOf(current_weights, symbol))
                * total_value
        traded == {symbol \in DOMAIN current_weights \cup DOMAIN optimal_weights :
                        Abs(dollar_amount(symbol)) > total_value * 10}
    IN  [symbol \in traded |-> dollar_amount(symbol)]

RebalancingTrades(current_weights, optimal_weights, total_value) ==
    /\ last_calc = NoCalc
    /\ last_calc' = [op |-> "rebalancing_trades",
                     args |-> [current_weights |-> current_weights,
                               optimal_weights |-> optimal_weights,
                               total_value |-> total_value],
                     result |-> CalculateRebalancingTrades(
                                    current_weights, optimal_weights, total_value)]
    /\ UNCHANGED <<now, nticks, gatewayVars, orchVars, histVars>>

\* num_points, the number of target returns (20 in the code).
num_points == 6

\* The metrics of the portfolio the solver finds for the i-th target return,
\* in units of 0.00001: the return rises with the target, the volatility
\* falls and rises again by spread a step, and is a little lower in the
\* second pass, which has no bounds on the weights.  No value lies half-way
\* between two multiples of 0.0001.
FrontierPoint(pass, i, spread) ==
    [expected_return |-> 10000 + 4 * i,
     volatility |-> 20000 + spread * Abs(i - 3) - (IF pass = 2 THEN 2 ELSE 0)]

\* round(x, 4), of a value in units of 0.00001
Round4(x) == ((x + 5) \div 10) * 10

\* One pass over the target returns: the points of the targets the solver
\* finds a portfolio for, in the order of the targets; the others raise and
\* are skipped.
RECURSIVE FrontierPass(_, _, _, _)
FrontierPass(pass, i, feasible, spread) ==
    IF i > num_points THEN <<>>
    ELSE (IF i \in feasible THEN <<FrontierPoint(pass, i, spread)>> ELSE <<>>)
            \o FrontierPass(pass, i + 1, feasible, spread)

\* A variant that keeps the point produced last of those with one key.
RECURSIVE UniquePoints_KeepLast(_, _)
UniquePoints_KeepLast(frontier_points, seen) ==
    IF frontier_points = <<>> THEN <<>>
    ELSE LET point == Head(frontier_points)
             key == <<Round4(point.expected_return), Round4(point.volatility)>>
         IN  IF \E i \in DOMAIN Tail(frontier_points) :
                    <<Round4(Tail(frontier_points)[i].expected_return),
                      Round4(Tail(frontier_points)[i].volatility)>> = key
             THEN UniquePoints_KeepLast(Tail(frontier_points), seen)
             ELSE <<point>> \o UniquePoints_KeepLast(Tail(frontier_points), seen)

\* Lines 365-372: the points whose key (the return and the volatility
\* rounded to 4 decimals) has not been seen before.
RECURSIVE UniquePoints(_, _)
UniquePoints(frontier_points, seen) ==
    IF frontier_points = <<>> THEN <<>>
    ELSE LET point == Head(frontier_points)
             key == <<Round4(point.expected_return), Round4(point.volatility)>>
         IN  IF key \notin seen
             THEN <<point>> \o UniquePoints(Tail(frontier_points), seen \cup {key})
             ELSE UniquePoints(Tail(frontier_points), seen)

\* unique_points.sort(key=lambda x: x.volatility): a stable sort.
RECURSIVE SortByVolatility(_)
SortByVolatility(points) ==
    IF points = <<>> THEN <<>>
    ELSE LET i == CHOOSE i \in DOMAIN points :
                    \A j \in DOMAIN points :
                        \/ points[i].volatility < points[j].volatility
                        \/ /\ points[i].volatility = points[j].volatility
                           /\ i <= j
         IN  <<points[i]>>
                \o SortByVolatility(SubSeq(points, 1, i - 1)
                                        \o SubSeq(points, i + 1, Len(points)))

\* A variant that runs the second pass whatever the first produced.
SecondPassRuns_Always(frontier_points) == TRUE

\* Line 343: len(frontier_points) < 5
SecondPassRuns(frontier_points) == Len(frontier_points) < 5

\* A variant without the outer try block: an error outside the passes is
\* raised.
GenerateEfficientFrontier_Unguarded(first, second, spread, outer_error) ==
    [raised |-> outer_error, produced |-> <<>>,
     points |-> IF outer_error THEN <<>>
                ELSE SortByVolatility(UniquePoints(
                        FrontierPass(1, 1, first, spread), {}))]

\* _generate_efficient_frontier.  first and second are the targets the
\* solver finds a portfolio for in the first and in the second pass;
\* outer_error is an exception outside the loops' own try blocks, which the
\* outer except clause answers with an empty list.  produced is the list
\* frontier_points as the passes leave it.
GenerateEfficientFrontier(first, second, spread, outer_error) ==
    IF outer_error
    THEN [raised |-> FALSE, produced |-> <<>>, points |-> <<>>]
    ELSE CHOOSE r \in
            {[raised |-> FALSE, produced |-> frontier_points,
              points |-> SortByVolatility(UniquePoints(frontier_points, {}))] :
                frontier_points \in
                    {IF SecondPassRuns(p1)
                     THEN p1 \o FrontierPass(2, 1, second, spread)
                     ELSE p1 : p1 \in {FrontierPass(1, 1, first, spread)}}} : TRUE

----------------------------------------------------------------------------
(* OptimizationService.optimize_portfolio *)

\* How many requests arrive in a behaviour; each is served by a task of its
\* own, as the web framework starts one coroutine per request.
MaxRequests == 2

Tasks == 1..MaxRequests

\* timedelta(minutes=5), in seconds
_cache_duration == 300

\* asyncio.sleep(1)
InFlightWait == 1

\* How the clock moves while requests are served.
OrchSteps == {InFlightWait, _cache_duration}

\* What the historical provider answers while requests are served: nothing,
\* or enough observations of every symbol.
OrchResponses == {[s \in Symbols |-> n] : n \in {0, min_data_points}}

\* The holdings the session store holds when the requests arrive.
Holding(s) == [symbol |-> s, quantity |-> 1, buy_price |-> 1]

Portfolios ==
    {<<>>,
     <<Holding("AAPL"), Holding("MSFT")>>,
     <<Holding("AAPL"), Holding("MSFT"), Holding("GOOGL")>>}

\* request.current_prices: absent (or empty), or a price for every symbol.
NoPrices == [s \in {} |-> 0]

PriceMaps == {NoPrices, [s \in Symbols |-> 1], [s \in Symbols |-> 0]}

\* target_return = None
NoTarget == -1

\* OptimizationRequest; returns and weights are in hundredths.  These
\* requests leave target_return, min_weight and max_weight at the defaults
\* of the model class.
Requests ==
    [risk_profile : {"moderate", "aggressive"},
     objective : {"max_sharpe"},
     target_return : {NoTarget},
     lookback_period : {252},
     min_weight : {1},
     max_weight : {40},
     current_prices : PriceMaps]

NoRequest ==
    [risk_profile |-> "", objective |-> "", target_return |-> NoTarget,
     lookback_period |-> 0, min_weight |-> 0, max_weight |-> 0,
     current_prices |-> NoPrices]

\* OptimizationService.RISK_PROFILES, in hundredths.
RISK_PROFILES ==
    [conservative |-> [min_weight |-> 5, max_weight |-> 25,
                       objective |-> "min_volatility", target_return |-> 8],
     moderate     |-> [min_weight |-> 2, max_weight |-> 30,
                       objective |-> "efficient_return", target_return |-> 12],
     aggressive   |-> [min_weight |-> 1, max_weight |-> 40,
                       objective |-> "max_sharpe", target_return |-> 15]]

NoConfig ==
    [raised |-> FALSE, min_weight |-> 0, max_weight |-> 0, objective |-> "",
     target_return |-> NoTarget]

\* Python's truth value of an Optional[float]: None and 0.0 are false.
Truthy(x) == x # NoTarget /\ x # 0

\* _get_risk_config: the profile's values, each replaced by the request's
\* when the request's is true; raises on an unknown profile.
GetRiskConfig(request) ==
    IF request.risk_profile \notin DOMAIN RISK_PROFILES
    THEN [NoConfig EXCEPT !.raised = TRUE]
    ELSE LET config == RISK_PROFILES[request.risk_profile]
         IN  [raised |-> FALSE,
              target_return |-> IF Truthy(request.target_return)
                                THEN request.target_return
                                ELSE config.target_return,
              min_weight |-> IF Truthy(request.min_weight)
                             THEN request.min_weight ELSE config.min_weight,
              max_weight |-> IF Truthy(request.max_weight)
                             THEN request.max_weight ELSE config.max_weight,
              objective |-> IF request.objective # ""
                            THEN request.objective ELSE config.objective]

\* _optimize_weights on n assets: whether it returns weights.  It raises on
\* an objective it does not know and when no weights within the bounds sum
\* to 1; otherwise the solver finds weights or not (feasible).
OptimizeWeights(risk_config, n, feasible) ==
    /\ risk_config.objective \in {"max_sharpe", "min_volatility", "efficient_return"}
    /\ risk_config.min_weight <= risk_config.max_weight
    /\ n * risk_config.min_weight <= 100
    /\ n * risk_config.max_weight >= 100
    /\ feasible

\* What a failed call raises and what the endpoint answers with: every
\* exception inside optimize_portfolio leaves it as a ValueError (lines
\* 159-161), which the endpoint turns into status 400 (lines 65-67).
SurfacedError(cause) == [type |-> "ValueError", status |-> 400]

NoError == [type |-> "", status |-> 0]

\* An OptimizationResult, named by the request whose run produced it, with
\* the risk configuration it was solved under and the valued holdings its
\* current_weights, optimal_weights and trades were computed from.
NoResult == [id |-> 0, key |-> "", config |-> NoConfig, held |-> <<>>]

\* f"{request.risk_profile}_{request.objective}_{request.lookback_period}"
CacheKey(request) ==
    request.risk_profile \o "_" \o request.objective \o "_"
        \o ToString(request.lookback_period)

\* A variant that takes the entries past their time to live for the fresh ones.
CachedFresh_Inverted(cache_key) ==
    /\ cache_key \in DOMAIN _optimization_cache
    /\ cache_key \in DOMAIN _cache_timestamp
    /\ now - _cache_timestamp[cache_key] > _cache_duration

\* cache_key in cache, cache_time set, and now - cache_time < _cache_duration
CachedFresh(cache_key) ==
    /\ cache_key \in DOMAIN _optimization_cache
    /\ cache_key \in DOMAIN _cache_timestamp
    /\ now - _cache_timestamp[cache_key] < _cache_duration

\* A variant that never finds a result at the re-check.
CachedAfterWait_Never(cache_key) == FALSE

\* The re-check after the in-flight wait: cache_key in self._optimization_cache
CachedAfterWait(cache_key) == cache_key \in DOMAIN _optimization_cache

\* A variant that waits again for as long as the key is in flight.
AfterWaitMiss_WaitAgain(cache_key) ==
    IF cache_key \in _active_optimizations THEN "wait" ELSE "compute"

\* What a task does that wakes from the wait and finds no cached result: it
\* goes on to mark the key and compute, whether the key is in flight or not.
AfterWaitMiss(cache_key) == "compute"

\* A variant that clears the marker only when the call returns a result.
Unmark_OnSuccessOnly(active, cache_key, out) ==
    IF out \in {"failed", "cancelled"} THEN active ELSE active \ {cache_key}

\* finally: if cache_key in self._active_optimizations: del ...
\* out is how the call ends: "cached", "computed", "failed" or "cancelled".
Unmark(active, cache_key, out) == active \ {cache_key}

\* Two variants that store the result early: before the solve, and before
\* the frontier, the rebalancing and the risk metrics.
Stages_StoreBeforeSolve ==
    <<"validate", "hist", "store", "solve", "metrics", "frontier", "rebalance",
      "risk", "return">>

Stages_StoreBeforeFrontier ==
    <<"validate", "hist", "solve", "metrics", "store", "frontier", "rebalance",
      "risk", "return">>

\* The steps of a computing run once its holdings are there, in order:
\* lines 93-101, 105-108, 110-118, 120-122, 124-125, 127-130, 132-134,
\* 136-155, 157.
Stages ==
    <<"validate", "hist", "solve", "metrics", "frontier", "rebalance", "risk",
      "store", "return">>

\* A task that runs no call.  waits, steps, fresh_at_start and stored_in_wait
\* are history kept for the claims: how often the call has waited, the steps
\* it has completed, the fresh cached result there was when it arrived, and
\* what another run stored under its key while it waited.
IdleTask ==
    [pc |-> "idle", id |-> 0, request |-> NoRequest, wake_at |-> 0,
     marked |-> FALSE, holdings |-> <<>>,
     waits |-> 0, steps |-> <<>>, fresh_at_start |-> NoResult,
     stored_in_wait |-> NoResult]

\* The call that ended last: how it ended and what it returned, and of its
\* history what the claims speak of: its request (less the prices), the risk
\* configuration the solver was called with, what made it fail and the error
\* it raised.
NoCall ==
    [out |-> "none", ret |-> NoResult, marked |-> FALSE,
     waits |-> 0, steps |-> <<>>, written |-> NoResult, ret_age |-> -1,
     fresh_at_start |-> NoResult, stored_in_wait |-> NoResult,
     request |-> NoRequest, config |-> NoConfig, cause |-> "none",
     error |-> NoError]

InProgress(t) == tk[t].pc # "idle"

\* HoldingWithMetrics of a holding at a price: its symbol and its value.
Valued(h, price) == [symbol |-> h.symbol, value |-> h.quantity * price]

\* get_holdings_with_provided_prices: current_prices.get(symbol, buy_price)
ProvidedHoldings(current_prices) ==
    [i \in DOMAIN holdings |->
        Valued(holdings[i],
               IF holdings[i].symbol \in DOMAIN current_prices
               THEN current_prices[holdings[i].symbol]
               ELSE holdings[i].buy_price)]

\* get_holdings_with_current_prices: the quote's price when it is positive,
\* else a price near the buy price; positive either way.
LiveHoldings == [i \in DOMAIN holdings |-> Valued(holdings[i], holdings[i].buy_price)]

RECURSIVE TotalValue(_)
TotalValue(hs) == IF hs = <<>> THEN 0 ELSE Head(hs).value + TotalValue(Tail(hs))

\* The frontier of a solver that finds a portfolio for every target.
FullFrontier == GenerateEfficientFrontier(1..num_points, {}, 3, FALSE)

\* What the solver does in the runs of the requests served: it finds a
\* weight vector or not, and a portfolio for every target of the frontier.
SolverAnswers == [feasible : BOOLEAN, frontier : {FullFrontier}]

\* One step of a computing run, on the run's account c of what it has done
\* and of the caches as it leaves them.  resp is what the historical provider
\* answers, solver what the solver does: whether it finds a weight vector,
\* and what _generate_efficient_frontier returns.  config is the risk
\* configuration _optimize_weights was called with, cause what made the run
\* fail.
ExecStage(stage, task, c, resp, solver) ==
    LET done == [c EXCEPT !.steps = Append(@, stage)]
    IN  CASE stage = "validate" ->
                IF Len(task.holdings) < 3 \/ TotalValue(task.holdings) <= 0
                THEN [c EXCEPT !.out = "failed", !.cause = "insufficient_holdings"]
                ELSE done
          [] stage = "hist" ->
                LET symbols == [i \in DOMAIN task.holdings |-> task.holdings[i].symbol]
                IN  CHOOSE after \in
                        {IF r.out = "failed"
                         THEN [c EXCEPT !.out = "failed",
                                        !.cause = IF r.raised THEN "provider"
                                                  ELSE "insufficient_history",
                                        !.fetch = FetchRecord(r, symbols,
                                                      task.request.lookback_period)]
                         ELSE [done EXCEPT !.hist = r.cache,
                                           !.fetch = FetchRecord(r, symbols,
                                                         task.request.lookback_period)] :
                            r \in {FetchHistoricalData(c.hist, symbols,
                                                       task.request.lookback_period,
                                                       resp)}} : TRUE
          [] stage = "solve" ->
                CHOOSE after \in
                    {IF risk_config.raised
                     THEN [c EXCEPT !.out = "failed", !.cause = "invalid_request"]
                     ELSE IF OptimizeWeights(risk_config, Len(task.holdings),
                                             solver.feasible)
                     THEN [done EXCEPT !.config = risk_config]
                     ELSE [c EXCEPT !.out = "failed", !.config = risk_config,
                                    !.cause =
                                        IF risk_config.objective \in
                                            {"max_sharpe", "min_volatility",
                                             "efficient_return"}
                                        THEN "infeasible" ELSE "invalid_request"] :
                        risk_config \in {GetRiskConfig(task.request)}} : TRUE
          [] stage = "frontier" ->
                IF solver.frontier.raised
                THEN [c EXCEPT !.out = "failed", !.cause = "frontier"]
                ELSE done
          [] stage \in {"metrics", "rebalance", "risk"} -> done
          [] stage = "store" ->
                LET cache_key == CacheKey(task.request)
                    result == [id |-> task.id, key |-> cache_key, config |-> c.config,
                               held |-> task.holdings]
                IN  [done EXCEPT !.result = result, !.written = result,
                                 !.ocache = (cache_key :> result) @@ @,
                                 !.ots = (cache_key :> now) @@ @]
          [] stage = "return" ->
                [done EXCEPT !.out = "computed", !.ret = c.result]

\* The steps in order, up to the first that ends the call.  (The CHOOSE over
\* a one-element set names the account after a step once, so that it is
\* computed once.)
RECURSIVE RunStages(_, _, _, _, _)
RunStages(stages, task, c, resp, solver) ==
    IF stages = <<>> \/ c.out # "none" THEN c
    ELSE CHOOSE r \in
            {RunStages(Tail(stages), task, after, resp, solver) :
                after \in {ExecStage(Head(stages), task, c, resp, solver)}} : TRUE

CallRecord(task, out, ret, steps, written, ret_age) ==
    [out |-> out, ret |-> ret,
     marked |-> task.marked, waits |-> task.waits, steps |-> steps,
     written |-> written, ret_age |-> ret_age,
     fresh_at_start |-> task.fresh_at_start,
     stored_in_wait |-> task.stored_in_wait,
     request |-> [task.request EXCEPT !.current_prices = NoPrices],
     config |-> NoConfig, cause |-> "none", error |-> NoError]

\* Another run has stored result under cache_key: the tasks that wait for
\* that key take note.
NoteStored(tasks, cache_key, result) ==
    [u \in Tasks |->
        IF tasks[u].pc = "waiting" /\ CacheKey(tasks[u].request) = cache_key
        THEN [tasks[u] EXCEPT !.stored_in_wait = result]
        ELSE tasks[u]]

\* The call returns a result from the result cache; the finally clause runs.
ReturnCached(t, task) ==
    LET cache_key == CacheKey(task.request)
    IN  /\ tk' = [tk EXCEPT ![t] = IdleTask]
        /\ last_done' = CallRecord(task, "cached", _optimization_cache[cache_key],
                                   task.steps, NoResult,
                                   now - _cache_timestamp[cache_key])
        /\ _active_optimizations' = Unmark(_active_optimizations, cache_key, "cached")
        /\ UNCHANGED <<_optimization_cache, _cache_timestamp, cache, last_fetch>>

\* The holdings are there and nothing suspends any more: the run goes through
\* its steps to its end, the except and finally clauses included, with what
\* the historical provider answers and what the solver finds.
RunToEnd(t, task, active) ==
    LET cache_key == CacheKey(task.request)
        c0 == [out |-> "none", steps |-> task.steps, result |-> NoResult,
               ret |-> NoResult, written |-> NoResult,
               ocache |-> _optimization_cache, ots |-> _cache_timestamp,
               hist |-> cache, fetch |-> last_fetch,
               config |-> NoConfig, cause |-> "none"]
    IN  \E c \in {RunStages(Stages, run, c0, resp, solver) :
                    run \in {task}, resp \in OrchResponses, solver \in SolverAnswers} :
            /\ _optimization_cache' = c.ocache
            /\ _cache_timestamp' = c.ots
            /\ cache' = c.hist
            /\ last_fetch' = c.fetch
            /\ _active_optimizations' = Unmark(active, cache_key, c.out)
            /\ tk' = IF c.written = NoResult
                     THEN [tk EXCEPT ![t] = IdleTask]
                     ELSE NoteStored([tk EXCEPT ![t] = IdleTask], cache_key, c.written)
            /\ last_done' =
                    [CallRecord(task, c.out, c.ret, c.steps, c.written, -1)
                        EXCEPT !.config = c.config, !.cause = c.cause,
                               !.error = IF c.out = "failed"
                                         THEN SurfacedError(c.cause) ELSE NoError]

\* Lines 79-91: the key is marked and the holdings are asked for.  With
\* prices in the request, with no holdings, or with every quote in the
\* market-data cache, nothing suspends and the run goes on to its end;
\* otherwise quotes are asked of the provider ("quotes" in the steps) and
\* the run is suspended until get_batch_quotes returns.
MarkAndFetchHoldings(t, task) ==
    LET cache_key == CacheKey(task.request)
        marked == [task EXCEPT !.marked = TRUE]
        have(hs) == [marked EXCEPT !.holdings = hs, !.steps = Append(@, "holdings")]
        suspend ==
            /\ tk' = [tk EXCEPT ![t] =
                        [marked EXCEPT !.pc = "quotes", !.holdings = LiveHoldings,
                                       !.steps = Append(@, "quotes")]]
            /\ _active_optimizations' = _active_optimizations \cup {cache_key}
            /\ UNCHANGED <<_optimization_cache, _cache_timestamp, cache,
                           last_fetch, last_done>>
    IN  IF DOMAIN task.request.current_prices # {}
        THEN RunToEnd(t, have(ProvidedHoldings(task.request.current_prices)),
                      _active_optimizations \cup {cache_key})
        ELSE IF holdings = <<>>
        THEN RunToEnd(t, have(LiveHoldings), _active_optimizations \cup {cache_key})
        ELSE \E all_cached \in BOOLEAN :
                IF all_cached
                THEN RunToEnd(t, have(LiveHoldings),
                              _active_optimizations \cup {cache_key})
                ELSE suspend

\* The cached result younger than _cache_duration that there is for
\* cache_key, if any: kept as history of a call, for the claims.
FreshAtStart(cache_key) ==
    IF /\ cache_key \in DOMAIN _optimization_cache
       /\ cache_key \in DOMAIN _cache_timestamp
       /\ now - _cache_timestamp[cache_key] < _cache_duration
    THEN _optimization_cache[cache_key]
    ELSE NoResult

\* Task t serves the next request: optimize_portfolio runs to its first
\* suspension or to its end: the fresh-cache check, the in-flight check, the
\* mark and what follows.  steps is what the caller did for the request
\* before the call.
Serve(t, request, steps) ==
    /\ t = nreq + 1
    /\ nticks < MaxTicks
    /\ nreq' = nreq + 1
    /\ LET cache_key == CacheKey(request)
           task == [IdleTask EXCEPT
                       !.id = t, !.request = request, !.steps = steps,
                       !.fresh_at_start = FreshAtStart(cache_key)]
       IN  IF CachedFresh(cache_key)
           THEN ReturnCached(t, task)
           ELSE IF cache_key \in _active_optimizations
           THEN /\ tk' = [tk EXCEPT ![t] =
                            [task EXCEPT !.pc = "waiting", !.wake_at = now + InFlightWait,
                                         !.waits = 1]]
                /\ UNCHANGED <<_optimization_cache, _cache_timestamp,
                               _active_optimizations, cache, last_fetch, last_done>>
           ELSE MarkAndFetchHoldings(t, task)
    /\ UNCHANGED <<now, nticks, holdings, api_key, calcVars, earlier_fetch,
                 gatewayVars>>

\* The next request arrives and is passed to optimize_portfolio as it is, as
\* the /compare endpoint does.
Arrive(t, request) == Serve(t, request, <<>>)

\* The checks of the /optimize endpoint on the request, lines 27-43.
EndpointRejects(request) ==
    \/ request.risk_profile \notin {"conservative", "moderate", "aggressive"}
    \/ request.objective \notin {"max_sharpe", "min_volatility", "efficient_return"}
    \/ request.objective = "efficient_return" /\ ~Truthy(request.target_return)

\* The /optimize endpoint, lines 23-70: the checks on the request, the
\* holdings with their current prices (quotes are asked of the provider
\* unless every symbol has a valid cached one), the checks on the holdings,
\* then optimize_portfolio.  An HTTPException raised inside the try block is
\* caught by the except Exception clause and answered with status 500.
PostOptimize(t, request) ==
    LET reject(cause, steps) ==
            /\ t = nreq + 1
            /\ nticks < MaxTicks
            /\ nreq' = nreq + 1
            /\ last_done' =
                    [CallRecord([IdleTask EXCEPT !.id = t, !.request = request],
                                "failed", NoResult, steps, NoResult, -1)
                        EXCEPT !.cause = cause,
                               !.error = [type |-> "HTTPException", status |-> 500]]
            /\ UNCHANGED <<now, nticks, holdings, _optimization_cache,
                           _cache_timestamp, _active_optimizations, tk,
                           histVars, calcVars, gatewayVars>>
    IN  IF EndpointRejects(request)
        THEN reject("invalid_request", <<>>)
        ELSE IF holdings = <<>>
        THEN reject("insufficient_holdings", <<>>)
        ELSE \E all_cached \in BOOLEAN :
                LET steps == IF all_cached THEN <<>> ELSE <<"quotes">>
                IN  IF Len(holdings) < 3
                    THEN reject("insufficient_holdings", steps)
                    ELSE Serve(t, request, steps)

\* asyncio.sleep(1) returns: the cache is looked at once more.
AfterWait(t) ==
    /\ tk[t].pc = "waiting"
    /\ now >= tk[t].wake_at
    /\ UNCHANGED <<now, nticks, holdings, nreq, api_key, calcVars, earlier_fetch,
                 gatewayVars>>
    /\ LET cache_key == CacheKey(tk[t].request)
       IN  IF CachedAfterWait(cache_key)
           THEN ReturnCached(t, tk[t])
           ELSE IF AfterWaitMiss(cache_key) = "wait"
           THEN /\ tk' = [tk EXCEPT ![t].wake_at = now + InFlightWait,
                                    ![t].waits = @ + 1]
                /\ UNCHANGED <<_optimization_cache, _cache_timestamp,
                               _active_optimizations, cache, last_fetch, last_done>>
           ELSE MarkAndFetchHoldings(t, tk[t])

\* get_batch_quotes returns (it never raises): the run goes on to its end.
QuotesDone(t) ==
    /\ tk[t].pc = "quotes"
    /\ UNCHANGED <<now, nticks, holdings, nreq, api_key, calcVars, earlier_fetch,
                 gatewayVars>>
    /\ RunToEnd(t, [tk[t] EXCEPT !.steps = Append(@, "holdings")],
                _active_optimizations)

\* The task is cancelled while suspended: CancelledError passes the except
\* clause, the finally clause runs.
Cancel(t) ==
    /\ tk[t].pc \in {"waiting", "quotes"}
    /\ tk' = [tk EXCEPT ![t] = IdleTask]
    /\ last_done' = CallRecord(tk[t], "cancelled", NoResult, tk[t].steps, NoResult, -1)
    /\ _active_optimizations' =
            Unmark(_active_optimizations, CacheKey(tk[t].request), "cancelled")
    /\ UNCHANGED <<now, nticks, holdings, nreq, _optimization_cache,
                   _cache_timestamp, histVars, calcVars, gatewayVars>>

\* The clock moves on, up to the next instant a waiting task is due at: a
\* sleep that is over ends before time passes.
OrchTick ==
    /\ \E d \in OrchSteps :
            /\ \A t \in Tasks : tk[t].pc = "waiting" => now + d <= tk[t].wake_at
            /\ Tick(d)
    /\ UNCHANGED <<gatewayVars, orchVars, histVars, calcVars>>

\* A step of task t that needs nothing but the event loop: a wait that is
\* over, a quote batch that has returned.
TaskStep(t) ==
    \/ AfterWait(t)
    \/ QuotesDone(t)

----------------------------------------------------------------------------
(* Specifications *)

\* The clock at 0, no call recorded, no task started, no history.
InitIdle ==
    /\ now = 0
    /\ nticks = 0
    /\ calls_made = <<>>
    /\ gw = [t \in GatewayTasks |-> [pc |-> "idle", wake_at |-> 0]]
    /\ last_waited = FALSE
    /\ last_batch = [op |-> "none", symbols |-> <<>>, answers |-> <<>>,
                     raised |-> FALSE, result |-> <<>>]
    /\ last_fetch = NoFetch
    /\ earlier_fetch = NoFetch
    /\ last_calc = NoCalc
    /\ _active_optimizations = {}
    /\ tk = [t \in Tasks |-> IdleTask]
    /\ nreq = 0
    /\ last_done = NoCall

\* The state after construction: empty caches.
Init ==
    /\ InitIdle
    /\ cache = <<>>
    /\ _optimization_cache = <<>>
    /\ _cache_timestamp = <<>>

InitGateway ==
    /\ Init
    /\ api_key = FALSE
    /\ holdings = <<>>

\* Several tasks share the client.
NextGateway ==
    \/ \E t \in GatewayTasks : EnforceRateLimit(t)
    \/ \E t \in GatewayTasks : WakeAndRecord(t)
    \/ GatewayTick

SpecGateway == InitGateway /\ [][NextGateway]_vars

\* One task issues its calls one after another.
NextGatewaySeq ==
    \/ EnforceRateLimit(1)
    \/ WakeAndRecord(1)
    \/ GatewayTick

SpecGatewaySeq == InitGateway /\ [][NextGatewaySeq]_vars

\* Several tasks share the client, and the clock reaches the end of the
\* window of a call.
NextGatewayOrder ==
    \/ \E t \in GatewayTasks : EnforceRateLimit(t)
    \/ \E t \in GatewayTasks : WakeAndRecord(t)
    \/ GatewayOrderTick

SpecGatewayOrder == InitGateway /\ [][NextGatewayOrder]_vars

\* Calls of _fetch_historical_data, with or without a configured api key.
InitHist ==
    /\ Init
    /\ api_key \in BOOLEAN
    /\ holdings = <<>>

NextHist ==
    \/ \E symbols \in HistSymbolLists, lookback_days \in HistLookbacks, resp \in Responses :
            FetchHistorical(symbols, lookback_days, resp)
    \/ HistTick

SpecHist == InitHist /\ [][NextHist]_vars

\* Batch calls of the two provider clients, each request answered or not.
NextProviders ==
    \/ \E symbols \in HistSymbolLists :
            \E answers \in [DOMAIN symbols -> {"price", "error", "exception"}] :
                GetBatchQuotes(symbols, answers)
    \/ \E symbols \in HistSymbolLists, resp \in Responses :
            GetHistorical(symbols, resp)

SpecProviders == InitHist /\ [][NextProviders]_vars

\* A request served to its end at time 0, before the requests that are
\* counted: the earlier request, and the caches as its run left them.
EarlierRequest ==
    [risk_profile |-> "moderate", objective |-> "max_sharpe",
     target_return |-> NoTarget, lookback_period |-> 252,
     min_weight |-> 1, max_weight |-> 40,
     current_prices |-> [s \in Symbols |-> 1]]

ServedEarlier(hs) ==
    LET task == [IdleTask EXCEPT !.request = EarlierRequest, !.marked = TRUE,
                                 !.holdings = hs, !.steps = <<"holdings">>]
        c0 == [out |-> "none", steps |-> task.steps, result |-> NoResult,
               ret |-> NoResult, written |-> NoResult,
               ocache |-> <<>>, ots |-> <<>>, hist |-> <<>>, fetch |-> NoFetch,
               config |-> NoConfig, cause |-> "none"]
    IN  RunStages(Stages, task, c0, [s \in Symbols |-> min_data_points],
                  [feasible |-> TRUE, frontier |-> FullFrontier])

\* The loop of _calculate_current_weights, lines 173-175: an entry for each
\* holding in turn, which replaces the entry its symbol had.
RECURSIVE WeightsLoop(_, _, _)
WeightsLoop(hs, total_value, weights) ==
    IF hs = <<>> THEN weights
    ELSE WeightsLoop(Tail(hs), total_value,
                     (Head(hs).symbol :> [num |-> Head(hs).value, den |-> total_value])
                        @@ weights)

\* _calculate_current_weights: raises when the holdings have no value.
CalculateCurrentWeights(hs) ==
    LET total_value == TotalValue(hs)
    IN  IF total_value <= 0
        THEN [raised |-> TRUE, weights |-> <<>>]
        ELSE [raised |-> FALSE, weights |-> WeightsLoop(hs, total_value, <<>>)]

\* The valued holdings optimize_portfolio accepts: three or more, of the
\* model's symbols, several of one symbol or not.
ValuedHoldings ==
    UNION {[1..n -> [symbol : Symbols, value : {1, 2}]] : n \in 3..MaxAssets}

CurrentWeights(hs) ==
    /\ last_calc = NoCalc
    /\ last_calc' = [op |-> "current_weights", args |-> hs,
                     result |-> CalculateCurrentWeights(hs)]
    /\ UNCHANGED <<now, nticks, gatewayVars, orchVars, histVars>>

\* _generate_efficient_frontier as optimize_portfolio calls it at lines
\* 124-125: what it returns, and the account of a run over three holdings
\* that gets this frontier, after a fetch and a solve that succeed.
Frontier(first, second, spread, outer_error) ==
    /\ last_calc = NoCalc
    /\ \E r \in {GenerateEfficientFrontier(first, second, spread, outer_error)} :
        \E c \in {RunStages(Stages, task,
                       [out |-> "none", steps |-> task.steps, result |-> NoResult,
                        ret |-> NoResult, written |-> NoResult,
                        ocache |-> <<>>, ots |-> <<>>, hist |-> <<>>,
                        fetch |-> NoFetch, config |-> NoConfig, cause |-> "none"],
                       [s \in Symbols |-> min_data_points],
                       [feasible |-> TRUE, frontier |-> r]) :
                    task \in {[IdleTask EXCEPT
                                !.id = 1, !.request = EarlierRequest,
                                !.marked = TRUE, !.steps = <<"holdings">>,
                                !.holdings =
                                    [i \in DOMAIN SymbolsSorted |->
                                        Valued(Holding(SymbolsSorted[i]), 1)]]}} :
            last_calc' = [op |-> "frontier",
                          args |-> [first |-> first, second |-> second,
                                    spread |-> spread,
                                    outer_error |-> outer_error],
                          result |-> r,
                          run |-> [out |-> c.out, steps |-> c.steps,
                                   written |-> c.written,
                                   cached |-> DOMAIN c.ocache]]
    /\ UNCHANGED <<now, nticks, gatewayVars, orchVars, histVars>>

InitServed ==
    /\ InitIdle
    /\ Len(holdings) >= 3
    /\ \E c \in {ServedEarlier(ProvidedHoldings(EarlierRequest.current_prices))} :
            /\ cache = c.hist
            /\ _optimization_cache = c.ocache
            /\ _cache_timestamp = c.ots

\* Requests served over a portfolio added to the store beforehand, by a
\* service just constructed or by one that has served a request already.
InitOrch ==
    /\ api_key = TRUE
    /\ holdings \in Portfolios
    /\ (Init \/ InitServed)

NextOrch ==
    \/ \E t \in Tasks, request \in Requests : Arrive(t, request)
    \/ \E t \in Tasks : TaskStep(t)
    \/ \E t \in Tasks : Cancel(t)
    \/ OrchTick

Spec == InitOrch /\ [][NextOrch]_vars

\* Every kind of request the model class accepts: the profiles and one name
\* that is none of them, the objectives, a target return absent, zero or
\* positive, weights at and between their limits.
AnyRequests ==
    [risk_profile : {"conservative", "moderate", "aggressive", "reckless"},
     objective : {"max_sharpe", "min_volatility", "efficient_return"},
     target_return : {NoTarget, 0, 10},
     lookback_period : {252},
     min_weight : {0, 5, 50},
     max_weight : {10, 40},
     current_prices : {NoPrices, [s \in Symbols |-> 1]}]

\* A portfolio that can be optimized, so that what becomes of a request
\* depends on the request.
InitRequest ==
    /\ InitOrch
    /\ Len(holdings) >= 3

\* One request of any kind, sent to /compare or to /optimize.
NextRequest ==
    \/ \E request \in AnyRequests : Arrive(1, request)
    \/ \E request \in AnyRequests : PostOptimize(1, request)
    \/ QuotesDone(1)
    \/ OrchTick

SpecRequest == InitRequest /\ [][NextRequest]_vars

\* Requests that all have the key of the earlier request.
SameKeyRequests == {request \in Requests : CacheKey(request) = CacheKey(EarlierRequest)}

NextOrchSameKey ==
    \/ \E t \in Tasks, request \in SameKeyRequests : Arrive(t, request)
    \/ \E t \in Tasks : TaskStep(t)
    \/ \E t \in Tasks : Cancel(t)
    \/ OrchTick

\* Requests for one key, served by a fair event loop: every task that can run
\* does run, collaborators return, and the clock moves on.
FairSpec ==
    /\ InitOrch
    /\ [][NextOrchSameKey]_vars
    /\ \A t \in Tasks : WF_vars(TaskStep(t))
    /\ WF_vars(OrchTick)

\* A run under a caller's timeout (asyncio.wait_for cancels the task when
\* the timeout elapses), from the holdings on.  Lines 105-157 hold no await
\* that suspends: the solver, the frontier and the risk metrics run without
\* giving the event loop a turn, so a timeout that elapses in the
\* solve_seconds they take is delivered to no one before the run has
\* stored its result and its finally clause has run.
TimedRun(timeout, solve_seconds, feasible) ==
    /\ last_calc = NoCalc
    /\ \E c \in {RunStages(Stages, task,
                    [out |-> "none", steps |-> task.steps, result |-> NoResult,
                     ret |-> NoResult, written |-> NoResult,
                     ocache |-> <<>>, ots |-> <<>>, hist |-> <<>>,
                     fetch |-> NoFetch, config |-> NoConfig, cause |-> "none"],
                    [s \in Symbols |-> min_data_points],
                    [feasible |-> feasible, frontier |-> FullFrontier]) :
                task \in {[IdleTask EXCEPT
                            !.id = 1, !.request = EarlierRequest,
                            !.marked = TRUE, !.steps = <<"holdings">>,
                            !.holdings =
                                [i \in DOMAIN SymbolsSorted |->
                                    Valued(Holding(SymbolsSorted[i]), 1)]]}} :
        last_calc' =
            [op |-> "timed_run",
             args |-> [timeout |-> timeout, solve_seconds |-> solve_seconds,
                       feasible |-> feasible],
             result |-> [out |-> c.out, steps |-> c.steps, written |-> c.written,
                         cached |-> DOMAIN c.ocache,
                         error |-> IF c.out = "failed"
                                   THEN SurfacedError(c.cause) ELSE NoError,
                         active |-> Unmark({CacheKey(EarlierRequest)},
                                           CacheKey(EarlierRequest), c.out)]]
    /\ UNCHANGED <<now, nticks, gatewayVars, orchVars, histVars>>

\* Weight vectors in tenths that sum to one.
TenthsVectors ==
    {w \in [Symbols -> {2, 3, 4, 5}] :
        SumSeq([i \in DOMAIN SymbolsSorted |-> w[SymbolsSorted[i]]]) = 10}

\* np.sqrt, to the unit below.
ISqrt(x) == CHOOSE r \in 0..x : r * r <= x /\ x < (r + 1) * (r + 1)

risk_free_rate == 20

\* _calculate_portfolio_metrics, for a diagonal covariance matrix: weights
\* in tenths, mu in hundredths, variances in ten-thousandths; the expected
\* return, the volatility and the risk-free rate in thousandths, the Sharpe
\* ratio as a fraction.
CalculatePortfolioMetrics(weights, mu, variance) ==
    LET weights_array == [i \in DOMAIN SymbolsSorted |->
                            IF SymbolsSorted[i] \in DOMAIN weights
                            THEN weights[SymbolsSorted[i]] ELSE 0]
        expected_return ==
            SumSeq([i \in DOMAIN SymbolsSorted |->
                        weights_array[i] * mu[SymbolsSorted[i]]])
        volatility ==
            ISqrt(SumSeq([i \in DOMAIN SymbolsSorted |->
                            weights_array[i] * weights_array[i]
                                * variance[SymbolsSorted[i]]]))
    IN  [expected_return |-> expected_return,
         volatility |-> volatility,
         sharpe_ratio |-> IF volatility > 0
                          THEN [num |-> expected_return - risk_free_rate,
                                den |-> volatility]
                          ELSE [num |-> 0, den |-> 1],
         weights |-> weights]

\* The /portfolio-metrics endpoint on a portfolio that optimize_portfolio
\* accepts: the result carries the metrics of the optimal weights (lines
\* 121 and 139-142 of the service), and the endpoint answers with the
\* result's expected_return, volatility and sharpe_ratio next to its
\* current_weights.
GetCurrentPortfolioMetrics(current_weights, optimal_weights, mu, variance) ==
    /\ last_calc = NoCalc
    /\ LET optimal_metrics == CalculatePortfolioMetrics(optimal_weights, mu, variance)
           result == [expected_return |-> optimal_metrics.expected_return,
                      volatility |-> optimal_metrics.volatility,
                      sharpe_ratio |-> optimal_metrics.sharpe_ratio,
                      optimal_weights |-> optimal_weights,
                      current_weights |-> current_weights]
       IN  last_calc' =
                [op |-> "portfolio_metrics",
                 args |-> [mu |-> mu, variance |-> variance,
                           optimal_weights |-> optimal_weights],
                 result |-> [expected_return |-> result.expected_return,
                             volatility |-> result.volatility,
                             sharpe_ratio |-> result.sharpe_ratio,
                             weights |-> result.current_weights]]
    /\ UNCHANGED <<now, nticks, gatewayVars, orchVars, histVars>>

\* The report of the /validate endpoint on the holdings with their current
\* prices, lines 221-247.
ValidatePortfolio_TwoHoldingsDo(hs) ==
    LET total_value == TotalValue(hs)
    IN  [is_valid |-> Len(hs) >= 2 /\ total_value > 0,
         issues |-> (IF Len(hs) = 0 THEN <<"No holdings found in portfolio">>
                     ELSE IF Len(hs) < 3
                     THEN <<"Need at least 3 holdings for optimization">>
                     ELSE <<>>)
                    \o (IF total_value <= 0 THEN <<"Portfolio has no value">>
                        ELSE <<>>),
         total_value |-> total_value,
         holdings_count |-> Len(hs)]

ValidatePortfolio(hs) ==
    LET total_value == TotalValue(hs)
    IN  [is_valid |-> Len(hs) >= 3 /\ total_value > 0,
         issues |-> (IF Len(hs) = 0 THEN <<"No holdings found in portfolio">>
                     ELSE IF Len(hs) < 3
                     THEN <<"Need at least 3 holdings for optimization">>
                     ELSE <<>>)
                    \o (IF total_value <= 0 THEN <<"Portfolio has no value">>
                        ELSE <<>>),
         total_value |-> total_value,
         holdings_count |-> Len(hs)]

\* POST /validate, while requests are being served: the holdings are valued
\* and reported on; optimize_portfolio is not called.
PostValidate ==
    /\ last_calc = NoCalc
    /\ last_calc' = [op |-> "validate", args |-> LiveHoldings,
                     result |-> ValidatePortfolio(LiveHoldings)]
    /\ UNCHANGED <<now, nticks, gatewayVars, orchVars, histVars>>

\* Requests served by one task, and a validation at any moment.
NextValidate ==
    \/ \E request \in Requests : Arrive(1, request)
    \/ QuotesDone(1)
    \/ OrchTick
    \/ PostValidate

SpecValidate == InitOrch /\ [][NextValidate]_vars

\* The most rows of returns of a price table.
MaxReturns == 2

\* historical_data: a row of positive closing prices per day, one column per
\* symbol.  The prices are powers of two, so that twice the ratio of two
\* prices is a whole number.
PriceTables ==
    UNION {[1..(n + 1) ->
                {[s \in Symbols |-> 1], [s \in Symbols |-> 2],
                 [s \in Symbols |-> IF s = "AAPL" THEN 2 ELSE 1],
                 [s \in Symbols |-> IF s = "AAPL" THEN 1 ELSE 2]}] :
            n \in 1..MaxReturns}

\* Weights in quarters; a symbol may be missing.
QuarterWeights ==
    {[s \in {"AAPL"} |-> 4],
     [s \in Symbols |-> IF s = "AAPL" THEN 2 ELSE 1],
     [s \in {"GOOGL", "MSFT"} |-> 2]}

\* returns.dot(weights_array) of pct_change().dropna(), in eighths:
\* weights.get(symbol, 0) in quarters by the return in halves.
PortfolioReturns(historical_data, weights) ==
    [t \in 1..(Len(historical_data) - 1) |->
        SumSeq([i \in DOMAIN SymbolsSorted |->
                    WeightOf(weights, SymbolsSorted[i])
                        * ((2 * historical_data[t + 1][SymbolsSorted[i]])
                                \div historical_data[t][SymbolsSorted[i]] - 2)])]

RECURSIVE ProdSeq(_)
ProdSeq(xs) == IF xs = <<>> THEN 1 ELSE Head(xs) * ProdSeq(Tail(xs))

\* None
NoValue == [num |-> 0, den |-> 0]

\* abs() of a ratio
AbsRatio_Signed(x) == x

AbsRatio(x) == [num |-> Abs(x.num), den |-> Abs(x.den)]

\* _calculate_max_drawdown.  cumulative(k) is (1 + portfolio_returns).cumprod()
\* at day k in units of 8^-n, n the number of returns; fails says that the
\* computation raises, which the except clause answers with None.
CalculateMaxDrawdown(historical_data, weights, fails) ==
    LET portfolio_returns == PortfolioReturns(historical_data, weights)
        n == Len(portfolio_returns)
        cumulative(k) ==
            ProdSeq([t \in 1..n |-> IF t <= k THEN 8 + portfolio_returns[t] ELSE 8])
        running_max(k) ==
            CHOOSE x \in {cumulative(j) : j \in 1..k} :
                \A j \in 1..k : cumulative(j) <= x
        drawdowns == [k \in 1..n |->
                        [num |-> cumulative(k) - running_max(k),
                         den |-> running_max(k)]]
        min == CHOOSE d \in {drawdowns[k] : k \in 1..n} :
                    \A k \in 1..n : d.num * drawdowns[k].den <= drawdowns[k].num * d.den
    IN  IF fails
        THEN [raised |-> FALSE, value |-> NoValue]
        ELSE [raised |-> FALSE, value |-> AbsRatio(min)]

\* np.sqrt(252), in thousandths
sqrt_252 == 15875

\* The values in ascending order.
RECURSIVE SortAscending(_)
SortAscending(xs) ==
    IF xs = <<>> THEN <<>>
    ELSE LET i == CHOOSE i \in DOMAIN xs : \A j \in DOMAIN xs : xs[i] <= xs[j]
         IN  <<xs[i]>> \o SortAscending([k \in 1..(Len(xs) - 1) |->
                                            IF k < i THEN xs[k] ELSE xs[k + 1]])

\* _calculate_cvar with confidence = 0.05.  np.percentile interpolates
\* between the two smallest returns at position 0.05 * (n - 1), which is
\* below 1 for the tables here; var is in units of 1/160, the returns in
\* eighths.
CalculateCvar(historical_data, weights, fails) ==
    LET portfolio_returns == PortfolioReturns(historical_data, weights)
        n == Len(portfolio_returns)
        sorted == SortAscending(portfolio_returns)
        var == IF n = 1 THEN 20 * sorted[1]
               ELSE 20 * sorted[1] + (n - 1) * (sorted[2] - sorted[1])
        cvar_returns == SelectSeq(portfolio_returns, LAMBDA r : 20 * r <= var)
        cvar == IF Len(cvar_returns) > 0
                THEN [num |-> SumSeq(cvar_returns), den |-> 8 * Len(cvar_returns)]
                ELSE [num |-> var, den |-> 160]
    IN  IF fails
        THEN [raised |-> FALSE, value |-> NoValue]
        ELSE [raised |-> FALSE,
              value |-> AbsRatio([num |-> cvar.num * sqrt_252,
                                  den |-> cvar.den * 1000])]

\* Lines 133-134: the two risk metrics of a result.
RiskMetrics(historical_data, weights, fails) ==
    /\ last_calc = NoCalc
    /\ \E op \in {"max_drawdown", "cvar"} :
        last_calc' =
            [op |-> op,
             args |-> [historical_data |-> historical_data, weights |-> weights,
                       fails |-> fails],
             result |-> IF op = "cvar"
                        THEN CalculateCvar(historical_data, weights, fails)
                        ELSE CalculateMaxDrawdown(historical_data, weights, fails)]
    /\ UNCHANGED <<now, nticks, gatewayVars, orchVars, histVars>>

\* SessionStore.add_holding: a holding under a new id; the optimization
\* service is not told.
AddHolding(symbol) ==
    /\ Len(holdings) < MaxAssets
    /\ holdings' = Append(holdings, Holding(symbol))
    /\ UNCHANGED <<now, nticks, gatewayVars, _optimization_cache, _cache_timestamp,
                   _active_optimizations, tk, nreq, last_done, histVars, calcVars>>

\* SessionStore.update_holding, of the quantity.
UpdateHolding(i, quantity) ==
    /\ i \in DOMAIN holdings
    /\ holdings' = [holdings EXCEPT ![i].quantity = quantity]
    /\ UNCHANGED <<now, nticks, gatewayVars, _optimization_cache, _cache_timestamp,
                   _active_optimizations, tk, nreq, last_done, histVars, calcVars>>

\* SessionStore.delete_holding
DeleteHolding(i) ==
    /\ i \in DOMAIN holdings
    /\ holdings' = SubSeq(holdings, 1, i - 1) \o SubSeq(holdings, i + 1, Len(holdings))
    /\ UNCHANGED <<now, nticks, gatewayVars, _optimization_cache, _cache_timestamp,
                   _active_optimizations, tk, nreq, last_done, histVars, calcVars>>

\* SessionStore.clear_portfolio
ClearPortfolio ==
    /\ holdings # <<>>
    /\ holdings' = <<>>
    /\ UNCHANGED <<now, nticks, gatewayVars, _optimization_cache, _cache_timestamp,
                   _active_optimizations, tk, nreq, last_done, histVars, calcVars>>

\* A request served while the portfolio changes.
NextStore ==
    \/ \E prices \in {NoPrices, EarlierRequest.current_prices} :
            Arrive(1, [EarlierRequest EXCEPT !.current_prices = prices])
    \/ QuotesDone(1)
    \/ OrchTick
    \/ \E symbol \in Symbols \ {holdings[i].symbol : i \in DOMAIN holdings} :
            AddHolding(symbol)
    \/ \E quantity \in {1, 2} : UpdateHolding(1, quantity)
    \/ DeleteHolding(Len(holdings))
    \/ ClearPortfolio

SpecStore == InitOrch /\ [][NextStore]_vars

\* Symbols the holdings store accepts (any string, upper-cased), in the
\* order of Python's string comparison; some hold the hyphen, as the ticker
\* of a share class does.
TickersSorted == <<"A", "A-B", "B", "B-C", "C">>

\* sorted(symbols), of such symbols
RECURSIVE SortTickers(_, _)
SortTickers(i, symbols) ==
    IF i > Len(TickersSorted) THEN <<>>
    ELSE SelectSeq(symbols, LAMBDA s : s = TickersSorted[i])
            \o SortTickers(i + 1, symbols)

\* f"{'-'.join(sorted(symbols))}_{lookback_days}", of such symbols
TickerCacheKey(symbols, lookback_days) ==
    Join(SortTickers(1, symbols), "-") \o "_" \o ToString(lookback_days)

\* The keys _fetch_historical_data makes for two symbol lists and one
\* lookback.
HistoricalKeys(symbols_a, symbols_b, lookback_days) ==
    /\ last_calc = NoCalc
    /\ last_calc' = [op |-> "historical_keys",
                     args |-> [symbols_a |-> symbols_a, symbols_b |-> symbols_b,
                               lookback_days |-> lookback_days],
                     result |-> [key_a |-> TickerCacheKey(symbols_a, lookback_days),
                                 key_b |-> TickerCacheKey(symbols_b, lookback_days)]]
    /\ UNCHANGED <<now, nticks, gatewayVars, orchVars, histVars>>

\* What there is for a symbol after the cache and the provider have been
\* asked: no quote (None), or a quote with its price.
QuoteAnswers == {[found |-> FALSE, price |-> 0], [found |-> TRUE, price |-> 0],
                 [found |-> TRUE, price |-> -1], [found |-> TRUE, price |-> 3]}

\* A variant that takes the price of any quote there is.
CurrentPrice_OfAnyQuote(quote, buy_price, variation) ==
    IF quote.found THEN quote.price * 100 ELSE buy_price * (100 + variation)

\* Lines 100-109, in hundredths: the quote's price when there is a quote
\* with a positive price, else the buy price changed by variation
\* hundredths, which random.uniform(-0.02, 0.03) draws.
CurrentPrice(quote, buy_price, variation) ==
    IF quote.found /\ quote.price > 0
    THEN quote.price * 100
    ELSE buy_price * (100 + variation)

\* get_holdings_with_current_prices on holdings with no valid cached quote:
\* the quotes the provider has are cached (lines 83-92), each holding is
\* priced and valued (lines 97-125); values are in hundredths.
ValueHoldings(hs, quotes, variations) ==
    /\ last_calc = NoCalc
    /\ last_calc' =
            [op |-> "value_holdings",
             args |-> [holdings |-> hs, quotes |-> quotes, variations |-> variations],
             result |->
                [raised |-> FALSE,
                 market_data |->
                    [s \in {t \in {hs[i].symbol : i \in DOMAIN hs} : quotes[t].found}
                        |-> quotes[s].price * 100],
                 holdings |->
                    [i \in DOMAIN hs |->
                        LET current_price ==
                                CurrentPrice(quotes[hs[i].symbol], hs[i].buy_price,
                                             variations[i])
                        IN  [symbol |-> hs[i].symbol,
                             current_price |-> current_price,
                             value |-> hs[i].quantity * current_price]]]]
    /\ UNCHANGED <<now, nticks, gatewayVars, orchVars, histVars>>

\* A service just constructed, with a configured historical provider.
InitCalc ==
    /\ Init
    /\ api_key = TRUE
    /\ holdings = <<>>

\* Calls of the computing helpers, each on inputs of its own.
NextCalc ==
    \/ \E n \in 3..MaxAssets,
          risk_config \in [min_weight : {1, 10}, max_weight : {400, 500}] :
            \E solved \in SolverOutputs(n, risk_config) :
                OptimizeWeightsPost(risk_config, solved)
    \/ \E current_weights \in WeightMaps, optimal_weights \in WeightMaps,
          total_value \in {1, 250} :
            RebalancingTrades(current_weights, optimal_weights, total_value)
    \/ \E first \in SUBSET (1..num_points),
          second \in {{}, {1}, {2, 3}, 1..num_points},
          spread \in {3, 20}, outer_error \in BOOLEAN :
            Frontier(first, second, spread, outer_error)
    \/ \E hs \in ValuedHoldings : CurrentWeights(hs)
    \/ \E current_weights \in TenthsVectors, optimal_weights \in TenthsVectors,
          mu \in [Symbols -> {5, 10}],
          variance \in {[s \in Symbols |-> 1],
                        [s \in Symbols |-> IF s = "AAPL" THEN 4 ELSE 1]} :
            GetCurrentPortfolioMetrics(current_weights, optimal_weights, mu, variance)
    \/ \E symbols_a, symbols_b \in
                {l \in [1..3 -> {TickersSorted[i] : i \in DOMAIN TickersSorted}] :
                    \A i, j \in 1..3 : i # j => l[i] # l[j]} :
            HistoricalKeys(symbols_a, symbols_b, 252)
    \/ \E hs \in {[i \in DOMAIN SymbolsSorted |->
                        [symbol |-> SymbolsSorted[i], quantity |-> 2,
                         buy_price |-> buy_price]] : buy_price \in {1, 50}},
          quotes \in [Symbols -> QuoteAnswers],
          variations \in [DOMAIN SymbolsSorted -> {-2, 0, 3}] :
            ValueHoldings(hs, quotes, variations)
    \/ \E timeout \in {1, 5}, solve_seconds \in {0, 2, 10}, feasible \in BOOLEAN :
            TimedRun(timeout, solve_seconds, feasible)
    \/ \E historical_data \in PriceTables, weights \in QuarterWeights,
          fails \in BOOLEAN :
            RiskMetrics(historical_data, weights, fails)

SpecCalc == InitCalc /\ [][NextCalc]_vars

----------------------------------------------------------------------------
(* Claims about the limiter *)

\* The recorded calls in the 60 seconds that end at T.
InWindow(T) ==
    Cardinality({i \in DOMAIN calls_made :
                    calls_made[i] <= T /\ T - calls_made[i] < rate_limit_window})

WindowEnds == {now} \cup {calls_made[i] : i \in DOMAIN calls_made}

\* C1: for any interleaving of tasks calling _enforce_rate_limit on one
\* client, no trailing 60-second window holds more than 60 recorded calls.
C1_ConcurrentWindowWithinLimit ==
    \A T \in WindowEnds : InWindow(T) <= max_calls_per_minute

\* C2: when a single task issues its calls one after another, at any arrival
\* times, no trailing 60-second window holds more than 60 recorded calls.
C2_SequentialWindowWithinLimit ==
    (\A t \in GatewayTasks : t # 1 => gw[t].pc = "idle")
        => \A T \in WindowEnds : InWindow(T) <= max_calls_per_minute

\* C2 witness: the call recorded last had waited out the window, and the
\* window that ends now is full.
C2_Witness ==
    /\ last_waited
    /\ InWindow(now) = max_calls_per_minute

----------------------------------------------------------------------------
(* Claims about optimize_portfolio *)

AllIdle == \A t \in Tasks : ~InProgress(t)

\* Step a comes before step b in steps, and both are there.
Before(a, b, steps) ==
    \E i, j \in DOMAIN steps : i < j /\ steps[i] = a /\ steps[j] = b

\* C3: a key is in _active_optimizations only while a run that marked it is
\* still executing, and a run that marked a key has removed the marker when
\* it has finished, however it ended; so with no call in progress the set is
\* empty.
C3_MarkerOnlyWhileRunning ==
    /\ \A k \in _active_optimizations :
            \E t \in Tasks :
                InProgress(t) /\ tk[t].marked /\ CacheKey(tk[t].request) = k
    /\ AllIdle => _active_optimizations = {}

\* C3 witness: a run that had marked its key was cancelled or failed, no call
\* is in progress, and the set is empty.
C3_Witness ==
    /\ last_done.marked
    /\ last_done.out \in {"failed", "cancelled"}
    /\ AllIdle
    /\ _active_optimizations = {}

\* C4: a call that returns a value taken from the result cache, at the first
\* check or at the re-check after the wait, returns an entry younger than
\* _cache_duration.
C4_CachedResultWithinTTL ==
    last_done.out = "cached" => last_done.ret_age < _cache_duration

\* C5: a call that finds, when it starts, a cached result for its key younger
\* than 5 minutes returns that result at once: it does not wait or suspend,
\* marks nothing, completes no step (no holdings, no historical fetch, no
\* solve) and writes nothing.
C5_FreshHitReturnsAtOnce ==
    /\ \A t \in Tasks : InProgress(t) => tk[t].fresh_at_start = NoResult
    /\ last_done.fresh_at_start # NoResult =>
            /\ last_done.out = "cached"
            /\ last_done.ret = last_done.fresh_at_start
            /\ last_done.waits = 0
            /\ ~last_done.marked
            /\ last_done.steps = <<>>
            /\ last_done.written = NoResult

\* C5 witness: a call that found a fresh cached result has returned it.
C5_Witness ==
    /\ last_done.out = "cached"
    /\ last_done.fresh_at_start # NoResult
    /\ last_done.ret = last_done.fresh_at_start

\* C6: a call that found its key in flight and waited, while a run stored a
\* result under that key, returns the stored result and computes nothing of
\* its own: no mark, no holdings, no historical fetch, no solve, no write.
C6_WaiterReturnsStoredResult ==
    (/\ last_done.waits >= 1
     /\ last_done.stored_in_wait # NoResult
     /\ last_done.out # "cancelled")
        => /\ last_done.out = "cached"
           /\ last_done.ret = last_done.stored_in_wait
           /\ ~last_done.marked
           /\ last_done.steps = <<>>
           /\ last_done.written = NoResult

\* C6 witness: a call waited, another run stored its result meanwhile, and
\* the call returned that result.
C6_Witness ==
    /\ last_done.waits = 1
    /\ last_done.stored_in_wait # NoResult
    /\ last_done.out = "cached"
    /\ last_done.ret = last_done.stored_in_wait

\* C7: no call waits a second time; a call that has waited and was not
\* cancelled has returned a cached result or has marked its key and computed;
\* and, the loop being fair and collaborators returning, every call in
\* progress finishes.
C7_WaitsOnceAndFinishes ==
    /\ [](/\ \A t \in Tasks : tk[t].waits <= 1
          /\ last_done.waits <= 1
          /\ (last_done.waits = 1 /\ last_done.out # "cancelled")
                => (last_done.out = "cached" \/ last_done.marked))
    /\ \A t \in Tasks : InProgress(t) ~> ~InProgress(t)

\* C7 witness: a call that had waited once found no cached result, marked its
\* key, computed and finished.
C7_Witness ==
    /\ last_done.waits = 1
    /\ last_done.marked
    /\ last_done.out \in {"computed", "failed"}

\* C8: a call that fails returns no result, and its run has written neither
\* the result cache nor the timestamp map.
C8_FailedRunWritesNothing ==
    last_done.out = "failed" =>
        /\ last_done.ret = NoResult
        /\ last_done.written = NoResult

\* C8 witness: a run failed in its solve, after its holdings and its
\* historical data were there.
C8_Witness ==
    /\ last_done.out = "failed"
    /\ Before("holdings", "hist", last_done.steps)
    /\ \A i \in DOMAIN last_done.steps : last_done.steps[i] # "solve"

\* C9: a run writes the result cache only after its holdings fetch, its
\* historical fetch, its solve, its frontier, its rebalancing and its risk
\* metrics; what it writes it returns; the entry is under the request key and
\* its timestamp is written in the same step.
C9_StoreAfterAllStepsAndReturned ==
    /\ DOMAIN _optimization_cache = DOMAIN _cache_timestamp
    /\ \A k \in DOMAIN _optimization_cache : _optimization_cache[k].key = k
    /\ last_done.written # NoResult =>
            /\ \A step \in {"holdings", "hist", "solve", "frontier",
                            "rebalance", "risk"} :
                    Before(step, "store", last_done.steps)
            /\ last_done.out = "computed"
            /\ last_done.ret = last_done.written
    /\ last_done.out = "computed" => last_done.written # NoResult

\* C9 witness: a computing run has stored and returned its result, and the
\* cache holds it with the timestamp of that moment.
C9_Witness ==
    /\ last_done.out = "computed"
    /\ last_done.written # NoResult
    /\ last_done.written.key \in DOMAIN _optimization_cache
    /\ _optimization_cache[last_done.written.key] = last_done.written

\* C14: a call that fails over a portfolio of fewer than 3 holdings has asked
\* no quote of the quote provider and no series of the historical provider.
C14_TooFewHoldingsFailsBeforeAnyFetch ==
    (last_done.out = "failed" /\ Len(holdings) < 3)
        => /\ \A i \in DOMAIN last_done.steps : last_done.steps[i] # "quotes"
           /\ last_fetch.calls = 0

\* C18: calls are recorded in the order their callers entered
\* _enforce_rate_limit: no call is recorded at once while a task that entered
\* earlier is still waiting out the rate window.
C18_RecordedInOrderOfEntry ==
    [][(gw' = gw /\ calls_made' # calls_made)
        => \A t \in GatewayTasks : ~(gw[t].pc = "sleeping" /\ now < gw[t].wake_at)]_vars

----------------------------------------------------------------------------
(* Claims about the provider clients *)

\* The place of symbol s in a list that holds it.
PlaceOf(s, symbols) == CHOOSE i \in DOMAIN symbols : symbols[i] = s

\* C17: get_batch_quotes never raises and returns an entry for every symbol
\* asked for, None where the request failed; get_historical_data returns the
\* series of the symbols that yielded data, in the order asked for, and
\* raises only when none did.
C17_OneFailureNeverAbortsTheBatch ==
    LET symbols == last_batch.symbols
        answers == last_batch.answers
        result == last_batch.result
    IN  /\ last_batch.op = "quotes"
            => /\ ~last_batch.raised
               /\ DOMAIN result = {symbols[i] : i \in DOMAIN symbols}
               /\ \A i \in DOMAIN symbols :
                    (result[symbols[i]] = NoQuote) <=> (answers[i] # "price")
        /\ last_batch.op = "historical"
            => /\ {result[i].symbol : i \in DOMAIN result}
                    = {symbols[i] : i \in {j \in DOMAIN symbols :
                                                api_key /\ answers[symbols[j]] > 0}}
               /\ \A i, j \in DOMAIN result :
                    i < j => PlaceOf(result[i].symbol, symbols)
                                < PlaceOf(result[j].symbol, symbols)
               /\ last_batch.raised => result = <<>>

\* The second of three quote requests failed with an exception and the third
\* was answered.
C17_Witness ==
    /\ last_batch.op = "quotes"
    /\ Len(last_batch.symbols) = 3
    /\ last_batch.answers[2] = "exception"
    /\ last_batch.answers[3] = "price"
    /\ last_batch.result[last_batch.symbols[3]].price > 0
    /\ last_batch.result[last_batch.symbols[2]] = NoQuote

----------------------------------------------------------------------------
(* Claims about requests *)

\* The call that ended last was served or refused (not cancelled).
Answered == last_done.out \in {"cached", "computed", "failed"}

\* C15: a request with objective efficient_return and no target_return
\* fails: no result is returned for it and none is stored.
C15_EfficientReturnNeedsTarget ==
    (/\ Answered
     /\ last_done.request.objective = "efficient_return"
     /\ last_done.request.target_return = NoTarget)
        => /\ last_done.out = "failed"
           /\ last_done.ret = NoResult
           /\ last_done.written = NoResult

\* What can make a call fail.
FailureCauses ==
    {"insufficient_holdings", "insufficient_history", "invalid_request",
     "infeasible", "provider"}

\* C16: the error of a failed call tells its cause: it is not the error
\* that a failure of any other cause surfaces as.
C16_FailureKindsAreDistinct ==
    last_done.out = "failed"
        => \A other \in FailureCauses \ {last_done.cause} :
                SurfacedError(other) # last_done.error

\* C19: the risk configuration the solver is called with has the request's
\* min_weight, max_weight and objective, and the request's target_return
\* when it carries one, the profile's otherwise.
C19_RequestOverridesProfile ==
    last_done.config # NoConfig
        => LET request == last_done.request
               config == last_done.config
           IN  /\ config.min_weight = request.min_weight
               /\ config.max_weight = request.max_weight
               /\ config.objective = request.objective
               /\ config.target_return =
                    IF request.target_return # NoTarget
                    THEN request.target_return
                    ELSE RISK_PROFILES[request.risk_profile].target_return

\* C20: a request that reaches the solver has min_weight <= max_weight, and
\* a request with min_weight > max_weight is refused before anything is
\* fetched for it.
C20_WeightBoundsChecked ==
    /\ last_done.config # NoConfig
            => last_done.request.min_weight <= last_done.request.max_weight
    /\ (Answered /\ last_done.request.min_weight > last_done.request.max_weight)
            => /\ last_done.out = "failed"
               /\ last_done.steps = <<>>

----------------------------------------------------------------------------
(* Claims about the historical cache *)

\* C10: _fetch_historical_data returns a stored dataset only while its age
\* is less than cache_timeout; at any greater age it fetches afresh.
C10_StoredDatasetOnlyWithinTTL ==
    last_fetch.out = "hit" => last_fetch.age < cache_timeout

\* Two symbol lists that hold the same symbols as often, in whatever order.
SamePortfolio(a, b) ==
    \A s \in Symbols : Len(SelectSeq(a, LAMBDA x : x = s))
                            = Len(SelectSeq(b, LAMBDA x : x = s))

\* last_fetch is a call made after the call kept in earlier_fetch stored its
\* dataset, for the same symbols and the same lookback.
LaterCallSameArguments ==
    /\ earlier_fetch.out = "fetched"
    /\ last_fetch # earlier_fetch
    /\ SamePortfolio(last_fetch.symbols, earlier_fetch.symbols)
    /\ last_fetch.lookback_days = earlier_fetch.lookback_days

C12_KeyIgnoresSymbolOrder ==
    LaterCallSameArguments
        => /\ last_fetch.key = earlier_fetch.key
           /\ last_fetch.at - earlier_fetch.at < cache_timeout
                => last_fetch.out = "hit"

\* The later call lists the symbols in another order and is a hit.
C12_Witness ==
    /\ LaterCallSameArguments
    /\ last_fetch.symbols # earlier_fetch.symbols
    /\ last_fetch.at > earlier_fetch.at
    /\ last_fetch.out = "hit"

\* A dataset of at least three symbols with at least 60 observations each.
UsableDataset(data) ==
    /\ Len(data) >= 3
    /\ \A i \in DOMAIN data : data[i].obs >= min_data_points

\* C13: every dataset in the historical cache has at least 3 symbols with at
\* least 60 observations each, and a call that ends its fetch with fewer than
\* 3 valid symbols fails and leaves the cache as it was, the entry under its
\* own key included.
C13_CacheHoldsUsableDatasetsOnly ==
    /\ [](\A k \in DOMAIN cache : UsableDataset(cache[k].data))
    /\ [][(last_fetch' # last_fetch /\ last_fetch'.out # "hit"
                                    /\ last_fetch'.valid < 3)
            => (last_fetch'.out = "failed" /\ cache' = cache)]_vars

\* A call found an expired entry under its key, fetched two valid symbols and
\* failed; the entry is still there.
C13_Witness ==
    /\ last_fetch.out = "failed"
    /\ last_fetch.valid = 2
    /\ last_fetch.age >= cache_timeout
    /\ last_fetch.key \in DOMAIN cache

----------------------------------------------------------------------------
(* Claims about the computing helpers *)

\* C21: the weights _optimize_weights returns sum to 1, and each is 0 or
\* lies within [min_weight, max_weight] of the risk configuration, whenever
\* the solver's output lay within these bounds and summed to 1.
C21_ReturnedWeightsSumToOneWithinBounds ==
    last_calc.op = "optimize_weights"
        => LET weights == last_calc.result
               risk_config == last_calc.args.risk_config
           IN  /\ \A i \in DOMAIN weights : weights[i].den = weights[1].den
               /\ SumSeq([i \in DOMAIN weights |-> weights[i].num]) = weights[1].den
               /\ \A i \in DOMAIN weights :
                    \/ weights[i].num = 0
                    \/ /\ risk_config.min_weight * weights[i].den
                            <= 1000 * weights[i].num
                       /\ 1000 * weights[i].num
                            <= risk_config.max_weight * weights[i].den

\* C22: the trade map holds exactly the symbols of either weight map whose
\* optimal and current weights (0 for a symbol a map lacks) differ by more
\* than 0.01, each with the difference times the total value; a symbol at or
\* below the threshold is not in the map.
C22_TradesAreTheDifferencesAboveOnePercent ==
    last_calc.op = "rebalancing_trades"
        => LET current == last_calc.args.current_weights
               optimal == last_calc.args.optimal_weights
               total == last_calc.args.total_value
               trades == last_calc.result
               diff(s) == (IF s \in DOMAIN optimal THEN optimal[s] ELSE 0)
                            - (IF s \in DOMAIN current THEN current[s] ELSE 0)
           IN  /\ \A s \in Symbols :
                    s \in DOMAIN trades
                        <=> /\ s \in DOMAIN current \cup DOMAIN optimal
                            /\ (diff(s) > 10 \/ diff(s) < -10)
               /\ \A s \in DOMAIN trades : trades[s] = diff(s) * total

\* One symbol is exactly at the threshold and is left out, another is in the
\* optimal weights alone and is bought.
C22_Witness ==
    /\ last_calc.op = "rebalancing_trades"
    /\ \E s \in DOMAIN last_calc.args.current_weights
                \cap DOMAIN last_calc.args.optimal_weights :
            /\ last_calc.args.optimal_weights[s]
                    - last_calc.args.current_weights[s] = 10
            /\ s \notin DOMAIN last_calc.result
    /\ \E s \in DOMAIN last_calc.args.optimal_weights
                \ DOMAIN last_calc.args.current_weights :
            /\ s \in DOMAIN last_calc.result
            /\ last_calc.result[s] > 0

\* The key two frontier points are taken for one point by.
SameKey(p, q) ==
    /\ Round4(p.expected_return) = Round4(q.expected_return)
    /\ Round4(p.volatility) = Round4(q.volatility)

\* C23: along a frontier returned by _generate_efficient_frontier the
\* volatility never falls, no two points have the same return and volatility
\* rounded to 4 decimals, and a returned point is the one produced first of
\* the points with its rounded pair; every pair produced is returned.
C23_FrontierSortedAndFirstOfEachKey ==
    last_calc.op = "frontier"
        => LET points == last_calc.result.points
               produced == last_calc.result.produced
           IN  /\ \A i, j \in DOMAIN points :
                    i < j => points[i].volatility <= points[j].volatility
               /\ \A i, j \in DOMAIN points :
                    i # j => ~SameKey(points[i], points[j])
               /\ \A i \in DOMAIN points :
                    \E k \in DOMAIN produced :
                        /\ produced[k] = points[i]
                        /\ \A l \in 1..(k - 1) :
                                ~SameKey(produced[l], points[i])
               /\ \A k \in DOMAIN produced :
                    \E i \in DOMAIN points : SameKey(produced[k], points[i])

\* Two points produced have one rounded pair and differ, the first of them
\* is returned, and the list produced was not in the order of the volatility.
C23_Witness ==
    /\ last_calc.op = "frontier"
    /\ LET points == last_calc.result.points
           produced == last_calc.result.produced
       IN  /\ \E k, l \in DOMAIN produced :
                /\ k < l
                /\ SameKey(produced[k], produced[l])
                /\ produced[k] # produced[l]
                /\ \E i \in DOMAIN points : points[i] = produced[k]
           /\ \E k, l \in DOMAIN produced :
                k < l /\ produced[k].volatility > produced[l].volatility
           /\ Len(produced) > Len(points)
           /\ Len(points) >= 3

\* C24: _generate_efficient_frontier raises nothing and returns a list, an
\* empty one after an error outside its passes, whatever targets are
\* infeasible in either pass; and the run that calls it goes on to its end:
\* it stores its result and returns it.
C24_FrontierNeverRaisesNorFailsTheRun ==
    last_calc.op = "frontier"
        => /\ ~last_calc.result.raised
           /\ \A k \in DOMAIN last_calc.result.points :
                \E pass \in 1..2, i \in 1..num_points :
                    last_calc.result.points[k]
                        = FrontierPoint(pass, i, last_calc.args.spread)
           /\ last_calc.args.outer_error => last_calc.result.points = <<>>
           /\ last_calc.run.out = "computed"
           /\ last_calc.run.written # NoResult
           /\ last_calc.run.written.key \in last_calc.run.cached
           /\ Before("frontier", "store", last_calc.run.steps)

\* Every target was infeasible in both passes, or an error occurred outside
\* them: the frontier is empty and the run has stored its result.
C24_Witness ==
    /\ last_calc.op = "frontier"
    /\ \/ last_calc.args.outer_error
       \/ last_calc.args.first = {} /\ last_calc.args.second = {}
    /\ last_calc.result.points = <<>>
    /\ last_calc.run.out = "computed"
    /\ last_calc.run.written # NoResult

\* C25: the current weights of an accepted holdings list sum to 1, and the
\* weight of each symbol is the value of all the holdings of that symbol
\* over the value of the portfolio.
C25_CurrentWeightsAreValueShares ==
    (last_calc.op = "current_weights" /\ ~last_calc.result.raised)
        => LET hs == last_calc.args
               weights == last_calc.result.weights
               ValueOf(s) == TotalValue(SelectSeq(hs, LAMBDA h : h.symbol = s))
           IN  /\ DOMAIN weights = {hs[i].symbol : i \in DOMAIN hs}
               /\ \A s \in DOMAIN weights :
                    weights[s].num * TotalValue(hs) = ValueOf(s) * weights[s].den
               /\ \A s \in DOMAIN weights : weights[s].den = TotalValue(hs)
               /\ SumSeq([i \in DOMAIN SymbolsSorted |->
                            IF SymbolsSorted[i] \in DOMAIN weights
                            THEN weights[SymbolsSorted[i]].num ELSE 0])
                    = TotalValue(hs)

(***************************************************************************)
(* Claims about the endpoints                                              *)
(***************************************************************************)

\* C26: a request that supplies current prices causes no call to the quote
\* provider: whether it came through /compare or through /optimize, no quotes
\* are asked for from its arrival to its completion.
C26_PricedRequestAsksNoQuotes ==
    [][\A prices \in {r.current_prices : r \in AnyRequests} \ {NoPrices} :
            LET done == tk'[1].pc = "idle"
                request == [(IF done THEN last_done'.request ELSE tk'[1].request)
                                EXCEPT !.current_prices = prices]
                steps == IF done THEN last_done'.steps ELSE tk'[1].steps
            IN  (/\ request \in AnyRequests
                 /\ Arrive(1, request) \/ PostOptimize(1, request))
                    => \A i \in DOMAIN steps : steps[i] # "quotes"]_vars

\* C27: the current-portfolio-metrics operation returns the expected return,
\* the volatility and the Sharpe ratio of the weights it returns, which are
\* the current weights.
C27_MetricsAreThoseOfTheWeightsReturned ==
    last_calc.op = "portfolio_metrics"
        => last_calc.result =
                CalculatePortfolioMetrics(last_calc.result.weights,
                                          last_calc.args.mu, last_calc.args.variance)

C29_RiskMetricsAreNullOrNonNegative ==
    last_calc.op \in {"max_drawdown", "cvar"}
        => /\ ~last_calc.result.raised
           /\ last_calc.args.fails => last_calc.result.value = NoValue
           /\ last_calc.result.value # NoValue
                => /\ last_calc.result.value.den > 0
                   /\ last_calc.result.value.num >= 0

\* The portfolio lost value on some day: its drawdown is reported as a
\* positive fraction.
C29_Witness ==
    /\ last_calc.op = "max_drawdown"
    /\ ~last_calc.args.fails
    /\ \E t \in DOMAIN PortfolioReturns(last_calc.args.historical_data,
                                        last_calc.args.weights) :
            PortfolioReturns(last_calc.args.historical_data,
                             last_calc.args.weights)[t] < 0
    /\ last_calc.result.value.num > 0

(***************************************************************************)
(* Claims about the historical provider and the gateway                    *)
(***************************************************************************)

\* C30: on a historical cache miss every per-symbol fetch goes through the
\* rate-limited gateway: the call window holds an entry, made during the
\* call, for each request sent to the historical provider.
C30_HistoricalFetchesAreRecordedByTheGateway ==
    [][(last_fetch' # last_fetch /\ last_fetch'.out # "hit")
        => Cardinality({i \in DOMAIN calls_made' : calls_made'[i] >= now})
                >= last_fetch'.calls]_vars

(***************************************************************************)
(* Claims about the passes of the frontier                                 *)
(***************************************************************************)

\* C31: the second pass over the target returns adds its points exactly when
\* the first pass produced fewer than 5 points; the first-pass points are
\* kept, in the order of the targets, and the second-pass points follow
\* them; the points returned are those of that list, deduplicated.
C31_SecondPassOnlyAfterFewerThanFivePoints ==
    (last_calc.op = "frontier" /\ ~last_calc.args.outer_error)
        => LET produced == last_calc.result.produced
               points == last_calc.result.points
               spread == last_calc.args.spread
               n1 == Cardinality(last_calc.args.first)
               rest == SubSeq(produced, n1 + 1, Len(produced))
               OfPass(pass, ps, feasible) ==
                    /\ {ps[k] : k \in DOMAIN ps}
                            = {FrontierPoint(pass, i, spread) : i \in feasible}
                    /\ Len(ps) = Cardinality(feasible)
                    /\ \A k, l \in DOMAIN ps :
                            k < l => ps[k].expected_return < ps[l].expected_return
           IN  /\ Len(produced) >= n1
               /\ OfPass(1, SubSeq(produced, 1, n1), last_calc.args.first)
               /\ n1 >= 5 => rest = <<>>
               /\ n1 < 5 => OfPass(2, rest, last_calc.args.second)
               /\ \A k \in DOMAIN produced :
                    \E i \in DOMAIN points : SameKey(produced[k], points[i])
               /\ \A i \in DOMAIN points :
                    \E k \in DOMAIN produced : produced[k] = points[i]

\* The first pass produced four points and the second pass added its own
\* after them.
C31_Witness ==
    /\ last_calc.op = "frontier"
    /\ ~last_calc.args.outer_error
    /\ Cardinality(last_calc.args.first) = 4
    /\ last_calc.args.second # {}
    /\ Len(last_calc.result.produced)
            = 4 + Cardinality(last_calc.args.second)
    /\ last_calc.result.produced[5].volatility
            = FrontierPoint(2, 1, last_calc.args.spread).volatility

(***************************************************************************)
(* Claims about cancellation and the in-flight set                         *)
(***************************************************************************)

\* C32: a request whose caller-imposed timeout elapses while the run is in
\* its solve/frontier stage fails with a timeout error: it stores no result
\* in the result cache, and its in-flight marker is cleared.
C32_TimeoutDuringSolveFailsTheRun ==
    (/\ last_calc.op = "timed_run"
     /\ last_calc.args.solve_seconds > last_calc.args.timeout)
        => /\ last_calc.result.out = "failed"
           /\ last_calc.result.error.type = "TimeoutError"
           /\ last_calc.result.written = NoResult
           /\ last_calc.result.cached = {}
           /\ last_calc.result.active = {}

\* C33: the check of the historical cache and the store that follows a miss
\* are one step with respect to the other tasks: a run that misses saw the
\* cache as it is when it stores, it replaces no entry that is valid, and
\* it leaves the entries of the other keys as they were; so of two
\* overlapping runs for one key the second finds what the first stored.
C33_HistoricalCheckAndStoreAreOneStep ==
    [][(last_fetch' # last_fetch /\ last_fetch'.out # "hit")
        => LET key == last_fetch'.key
           IN  /\ last_fetch'.at = now
               /\ key \in DOMAIN cache
                    => /\ ~HistEntryValid(cache[key].time, now)
                       /\ last_fetch'.age = now - cache[key].time
               /\ key \notin DOMAIN cache => last_fetch'.age = -1
               /\ last_fetch'.out = "failed" => cache' = cache
               /\ last_fetch'.out = "fetched"
                    => /\ DOMAIN cache' = DOMAIN cache \cup {key}
                       /\ cache'[key] = [data |-> last_fetch'.data, time |-> now]
                       /\ \A k \in DOMAIN cache : k # key => cache'[k] = cache[k]]_vars

\* One run has fetched and stored a dataset while another run, which began
\* before the first ended, is suspended before its own check of the cache.
C33_Witness ==
    /\ last_fetch.out = "fetched"
    /\ last_fetch.key \in DOMAIN cache
    /\ last_done.out = "computed"
    /\ \E t \in Tasks : tk[t].pc = "quotes"

\* C34: the in-flight marker of a key is removed only by a run that marked
\* it: a call that ends without having marked its key (it returned from the
\* fresh-cache check or from the re-check after the wait, or was cancelled
\* during the wait) leaves the in-flight set as it was.
C34_OnlyTheMarkingRunRemovesTheMarker ==
    [][(last_done' # last_done /\ ~last_done'.marked
            /\ last_done'.out \in {"cached", "cancelled"})
        => _active_optimizations' = _active_optimizations]_vars

\* C35: while a run for a key is between marking the key and finishing, the
\* key is in the in-flight set, so a request for the key that arrives then
\* and finds no fresh result waits.
C35_MarkedWhileARunIsUnderWay ==
    \A t \in Tasks :
        (InProgress(t) /\ tk[t].marked)
            => CacheKey(tk[t].request) \in _active_optimizations

(***************************************************************************)
(* Claims about what the result cache returns                              *)
(***************************************************************************)

\* C36: a result returned from the result cache was computed under the
\* min_weight, max_weight and target_return of the request that receives
\* it.
C36_CachedResultHasTheRequestsParameters ==
    last_done.out = "cached"
        => LET wanted == GetRiskConfig(last_done.request)
           IN  /\ last_done.ret.config.min_weight = wanted.min_weight
               /\ last_done.ret.config.max_weight = wanted.max_weight
               /\ last_done.ret.config.target_return = wanted.target_return

\* C37: a call that arrives after the holdings have changed returns a result
\* whose current and optimal weights were computed from the holdings as
\* they are at that call.  (A call that ends in the step it arrives in is
\* the one the step is about.)
C37_ResultRefersToTheHoldingsOfTheCall ==
    [][(/\ nreq' = nreq + 1
        /\ last_done' # last_done
        /\ last_done'.out \in {"cached", "computed"})
        => \E prices \in {NoPrices, EarlierRequest.current_prices} :
                last_done'.ret.held
                    = [i \in DOMAIN holdings |->
                        Valued(holdings[i],
                               IF holdings[i].symbol \in DOMAIN prices
                               THEN prices[holdings[i].symbol]
                               ELSE holdings[i].buy_price)]]_vars

(***************************************************************************)
(* Claims about the key of the historical cache                            *)
(***************************************************************************)

\* C38: two symbol lists with one lookback and different sets of symbols
\* have different keys in the historical cache.
C38_HistoricalKeyTellsSymbolSetsApart ==
    last_calc.op = "historical_keys"
        => LET a == last_calc.args.symbols_a
               b == last_calc.args.symbols_b
           IN  {a[i] : i \in DOMAIN a} # {b[i] : i \in DOMAIN b}
                    => last_calc.result.key_a # last_calc.result.key_b

(***************************************************************************)
(* Claims about the valuation of the holdings                              *)
(***************************************************************************)

\* C39: when there is no usable quote for a holding's symbol (none, or one
\* with a price that is not positive), the valuation does not fail: the
\* price of the holding lies within [0.98, 1.03] times its buy price, so
\* every holding has a value > 0 and so has the portfolio; and the price
\* chosen is not written to the quote cache.
C39_FallbackPriceIsNearTheBuyPrice ==
    last_calc.op = "value_holdings"
        => LET hs == last_calc.args.holdings
               quotes == last_calc.args.quotes
               valued == last_calc.result.holdings
               market_data == last_calc.result.market_data
               Usable(s) == quotes[s].found /\ quotes[s].price > 0
           IN  /\ ~last_calc.result.raised
               /\ Len(valued) = Len(hs)
               /\ \A i \in DOMAIN hs :
                    ~Usable(hs[i].symbol)
                        => /\ valued[i].current_price >= 98 * hs[i].buy_price
                           /\ valued[i].current_price <= 103 * hs[i].buy_price
                           /\ hs[i].symbol \in DOMAIN market_data
                                => market_data[hs[i].symbol] # valued[i].current_price
               /\ \A i \in DOMAIN valued : valued[i].value > 0
               /\ TotalValue(valued) > 0

\* A holding whose quote has the price 0 and one with no quote were valued
\* below and above their buy prices.
C39_Witness ==
    /\ last_calc.op = "value_holdings"
    /\ \E i, j \in DOMAIN last_calc.args.holdings :
        LET hs == last_calc.args.holdings
            quotes == last_calc.args.quotes
            valued == last_calc.result.holdings
        IN  /\ quotes[hs[i].symbol].found /\ quotes[hs[i].symbol].price = 0
            /\ valued[i].current_price = 98 * hs[i].buy_price
            /\ ~quotes[hs[j].symbol].found
            /\ valued[j].current_price = 103 * hs[j].buy_price

====
